---------------------------- MODULE Spec2Model ----------------------------
(***************************************************************************)
(* PBIP review pipeline: naming transforms, the standards validator, the   *)
(* model-structure loader and the pipeline orchestrator                    *)
(* (pbip_staging/pilot_pipeline.py, mcp_server/orchestration.py,           *)
(* mcp_server/standards/reader.py).                                        *)
(*                                                                         *)
(* Python strings are sequences of one-character strings.  Python's None   *)
(* is the one-element sequence None, which no string of the model equals.  *)
(***************************************************************************)
EXTENDS Integers, Sequences, FiniteSets, TLC

VARIABLES
    npc, name, snake, pascal,                      \* naming transformer run
    vpc, catalog, first_folder, structure, mi, ci, issues, fixes, result,  \* validate_standards run
    rpc, artifact, loaded, sessions, audit, summary,         \* run_source run
    dpc, expr, findings,                           \* detect_dax_issues run
    tpc, tmdl_fixes, patch,                        \* generate_tmdl_corrections run
    cpc, cargs, scores, resolved, profile_md, classification,  \* classify_source run
    config_arg, legacy_file, built,  \* build_catalog calls
    sync_legacy, catalog_file, clock, sync_result, fetched, synced,  \* standards sync runs
    smgr, trail, issued, reply, pending,  \* session manager calls
    rate_limit_store, wall, rate_response, admitted,  \* rate_limiter calls
    kpc, kwords, ksize, koverlap, kstart, kchunks, kparity  \* _chunk_text call

nameVars == <<npc, name, snake, pascal>>
valVars == <<vpc, catalog, first_folder, structure, mi, ci, issues, fixes, result>>
runVars == <<rpc, artifact, loaded, sessions, audit, summary>>
daxVars == <<dpc, expr, findings>>
\* the runs of the functions that keep no state between calls
tmdlVars == <<tpc, tmdl_fixes, patch>>
classVars == <<cpc, cargs, scores, resolved, profile_md, classification>>
buildVars == <<config_arg, legacy_file, built>>
syncVars == <<sync_legacy, catalog_file, clock, sync_result, fetched, synced>>
sessVars == <<smgr, trail, issued, reply, pending>>
rateVars == <<rate_limit_store, wall, rate_response, admitted>>
chunkVars == <<kpc, kwords, ksize, koverlap, kstart, kchunks, kparity>>
pureVars == <<daxVars, tmdlVars, classVars, buildVars, syncVars, sessVars, rateVars, chunkVars>>
vars == <<npc, name, snake, pascal, vpc, catalog, first_folder, structure, mi, ci, issues, fixes,
          result, rpc, artifact, loaded, sessions, audit, summary, pureVars>>

----------------------------------------------------------------------------
(* Characters and strings                                                  *)

None == <<"None">>

\* the printable ASCII characters, code points 32..126, in code point order
\* (code point 96, the grave accent, is written as a token)
Ascii ==
    <<" ", "!", "\"", "#", "$", "%", "&", "'", "(", ")", "*", "+", ",", "-", ".", "/",
      "0", "1", "2", "3", "4", "5", "6", "7", "8", "9", ":", ";", "<", "=", ">", "?",
      "@", "A", "B", "C", "D", "E", "F", "G", "H", "I", "J", "K", "L", "M", "N", "O",
      "P", "Q", "R", "S", "T", "U", "V", "W", "X", "Y", "Z", "[", "\\", "]", "^", "_",
      "<grave>", "a", "b", "c", "d", "e", "f", "g", "h", "i", "j", "k", "l", "m", "n", "o",
      "p", "q", "r", "s", "t", "u", "v", "w", "x", "y", "z", "{", "|", "}", "~">>

\* ord(c), tabulated once for the characters of the model
CodePoint ==
    [c \in {Ascii[i] : i \in 1..Len(Ascii)} \cup {"\n"} |->
        IF c = "\n" THEN 10 ELSE 31 + (CHOOSE i \in 1..Len(Ascii) : Ascii[i] = c)]

Ord(c) == CodePoint[c]

Chr(n) == Ascii[n - 31]

IsUpper(c) == Ord(c) >= 65 /\ Ord(c) <= 90

IsLower(c) == Ord(c) >= 97 /\ Ord(c) <= 122

IsDigit(c) == Ord(c) >= 48 /\ Ord(c) <= 57

IsAlnum(c) == IsUpper(c) \/ IsLower(c) \/ IsDigit(c)

IsSpace(c) == c = " " \/ c = "\n"

LowerChar(c) == IF IsUpper(c) THEN Chr(Ord(c) + 32) ELSE c

UpperChar(c) == IF IsLower(c) THEN Chr(Ord(c) - 32) ELSE c

\* str.lower() / str.upper()
Lower(s) == [i \in 1..Len(s) |-> LowerChar(s[i])]

Upper(s) == [i \in 1..Len(s) |-> UpperChar(s[i])]

\* Python truthiness of an optional string: None and the empty string are falsy
Falsy(v) == v = None \/ v = <<>>

Truthy(v) == ~Falsy(v)

\* a or b
Or(a, b) == IF Truthy(a) THEN a ELSE b

\* re.sub of [^0-9A-Za-z]+ by rep: every maximal run of non-alphanumerics
\* becomes the single character rep
\* (first every non-alphanumeric is marked as rep, which is none itself,
\* then of every run of marks the last one is kept)
MarkNonAlnum(s, rep) == [i \in 1..Len(s) |-> IF IsAlnum(s[i]) THEN s[i] ELSE rep]

DropRepeats(m, rep) ==
    LET kept == SelectSeq([i \in 1..Len(m) |-> <<m[i], i < Len(m) /\ m[i + 1] = rep>>],
                          LAMBDA p : p[1] # rep \/ ~p[2])
    IN [k \in 1..Len(kept) |-> kept[k][1]]

SubNonAlnumRuns(s, rep) == DropRepeats(MarkNonAlnum(s, rep), rep)

\* str.strip(chars) for a set of characters
RECURSIVE LStrip(_, _)
LStrip(s, cs) == IF s # <<>> /\ Head(s) \in cs THEN LStrip(Tail(s), cs) ELSE s

RECURSIVE RStrip(_, _)
RStrip(s, cs) ==
    IF s # <<>> /\ s[Len(s)] \in cs THEN RStrip(SubSeq(s, 1, Len(s) - 1), cs) ELSE s

Strip(s, cs) == RStrip(LStrip(s, cs), cs)

WhiteSpace == {" ", "\n"}

\* re.sub of ([a-z0-9])([A-Z]) by group 1, underscore, group 2: a match spans two characters and
\* the scan resumes after it, so no two matches overlap
\* variant: no underscore is inserted at a case boundary
SplitCamel_noBoundary(s) == s

RECURSIVE SplitCamel(_)
SplitCamel(s) ==
    IF Len(s) < 2 THEN s
    ELSE IF (IsLower(s[1]) \/ IsDigit(s[1])) /\ IsUpper(s[2])
         THEN <<s[1], "_", s[2]>> \o SplitCamel(SubSeq(s, 3, Len(s)))
         ELSE <<s[1]>> \o SplitCamel(Tail(s))

\* re.sub of _{2,} by a single underscore
RECURSIVE CollapseUnderscores(_)
CollapseUnderscores(s) ==
    IF Len(s) < 2 THEN s
    ELSE IF s[1] = "_" /\ s[2] = "_" THEN CollapseUnderscores(Tail(s))
    ELSE <<s[1]>> \o CollapseUnderscores(Tail(s))

\* variant: the edges are trimmed before the runs are replaced
to_snake_case_trimFirst(n) ==
    Lower(CollapseUnderscores(SplitCamel(SubNonAlnumRuns(Strip(n, {"_"}), "_"))))

to_snake_case(n) ==
    Lower(CollapseUnderscores(SplitCamel(Strip(SubNonAlnumRuns(n, "_"), {"_"}))))

\* re.split on whitespace runs, of a stripped, non-empty string
RECURSIVE SplitWords(_, _)
SplitWords(s, word) ==
    IF s = <<>> THEN <<word>>
    ELSE IF IsSpace(Head(s))
         THEN <<word>> \o SplitWords(LStrip(s, WhiteSpace), <<>>)
         ELSE SplitWords(Tail(s), Append(word, Head(s)))

\* str.capitalize()
Capitalize(w) ==
    [i \in 1..Len(w) |-> IF i = 1 THEN UpperChar(w[i]) ELSE LowerChar(w[i])]

\* sep.join(words)
RECURSIVE Join(_, _)
Join(words, sep) ==
    IF words = <<>> THEN <<>>
    ELSE IF Len(words) = 1 THEN words[1]
    ELSE words[1] \o sep \o Join(Tail(words), sep)

\* the filter of the generator expression: empty words are dropped
RECURSIVE NonEmptyWords(_)
NonEmptyWords(words) ==
    IF words = <<>> THEN <<>>
    ELSE IF Head(words) = <<>> THEN NonEmptyWords(Tail(words))
    ELSE <<Head(words)>> \o NonEmptyWords(Tail(words))

to_pascal_case_with_spaces(n) ==
    LET cleaned == Strip(SubNonAlnumRuns(n, " "), WhiteSpace)
        words == NonEmptyWords(SplitWords(cleaned, <<>>))
    IN IF cleaned = <<>> THEN n
       ELSE Join([i \in 1..Len(words) |-> Capitalize(words[i])], <<" ">>)

\* ^[a-z0-9]+(?:_[a-z0-9]+)*$ against the whole of s
SnakeFull(s) ==
    /\ s # <<>>
    /\ \A i \in 1..Len(s) : IsLower(s[i]) \/ IsDigit(s[i]) \/ s[i] = "_"
    /\ s[1] # "_"
    /\ s[Len(s)] # "_"
    /\ \A i \in 1..(Len(s) - 1) : ~(s[i] = "_" /\ s[i + 1] = "_")

\* ^[A-Z][A-Za-z0-9]*(?: [A-Z][A-Za-z0-9]*)*$ against the whole of s
PascalFull(s) ==
    /\ s # <<>>
    /\ \A i \in 1..Len(s) : IsAlnum(s[i]) \/ s[i] = " "
    /\ IsUpper(s[1])
    /\ s[Len(s)] # " "
    /\ \A i \in 1..(Len(s) - 1) : s[i] = " " => IsUpper(s[i + 1])

\* the texts the dollar anchor can end a match of s at: in Python it matches at
\* the end of the string and also just before a final newline
DollarEnds(s) ==
    {s} \cup (IF s # <<>> /\ s[Len(s)] = "\n" THEN {SubSeq(s, 1, Len(s) - 1)} ELSE {})

SNAKE_CASE_RE(s) == \E t \in DollarEnds(s) : SnakeFull(t)

PASCAL_CASE_WITH_SPACES_RE(s) == \E t \in DollarEnds(s) : PascalFull(t)

\* a string literal of the source as a sequence of characters
Chars(str) == [i \in 1..Len(str) |-> SubSeq(str, i, i)]

\* lexicographic order of strings by code point
RECURSIVE StrLess(_, _)
StrLess(a, b) ==
    IF b = <<>> THEN FALSE
    ELSE IF a = <<>> THEN TRUE
    ELSE IF Ord(Head(a)) # Ord(Head(b)) THEN Ord(Head(a)) < Ord(Head(b))
    ELSE StrLess(Tail(a), Tail(b))

\* sorted(set of strings)
RECURSIVE Sorted(_)
Sorted(set) ==
    IF set = {} THEN <<>>
    ELSE LET least == CHOOSE x \in set : \A y \in set \ {x} : StrLess(x, y)
         IN <<least>> \o Sorted(set \ {least})

----------------------------------------------------------------------------
(* Rule catalog (mcp_server/standards/reader.py) and the module-level      *)
(* lookups of pilot_pipeline.py.  A rule id is the pair of its fixed       *)
(* prefix and the slug appended to it; a description is a fixed text, the  *)
(* configured pattern interpolated into it, and the configured entry it    *)
(* copies.                                                                 *)

S_division == <<"d", "i", "v", "i", "s", "i", "o", "n">>
S_counting == <<"c", "o", "u", "n", "t", "i", "n", "g">>
S_giant == <<"g", "i", "a", "n", "t", "_", "m", "e", "a", "s", "u", "r", "e", "s", "_",
             "w", "i", "t", "h", "o", "u", "t", "_", "v", "a", "r">>
S_all_table == <<"a", "l", "l", "_", "t", "a", "b", "l", "e", "_", "w", "h", "e", "n", "_",
                 "a", "l", "l", "_", "c", "o", "l", "u", "m", "n", "_", "i", "s", "_",
                 "e", "n", "o", "u", "g", "h">>
S_lookupvalue == <<"u", "s", "i", "n", "g", "_", "s", "t", "r", "i", "n", "g", "s", "_",
                   "i", "n", "s", "t", "e", "a", "d", "_", "o", "f", "_", "i", "d", "s", "_",
                   "f", "o", "r", "_", "j", "o", "i", "n", "s", "_", "f">>

NoRuleId == <<"None", <<>>>>
ID_MEASURE_NAMING == <<"dax.naming.measure.snake_case", <<>>>>
ID_COLUMN_NAMING == <<"dax.naming.column.pascal_case", <<>>>>
ID_DISPLAY_FOLDER == <<"dax.naming.display_folder.allowed", <<>>>>
ID_FORMAT_STRING == <<"dax.formatting.measure.format_string_required", <<>>>>
ID_DIVISION == <<"dax.coding.", S_division>>
ID_COUNTING == <<"dax.coding.", S_counting>>
ID_GIANT == <<"dax.anti_pattern.", S_giant>>
ID_ALL_TABLE == <<"dax.anti_pattern.", S_all_table>>
ID_LOOKUPVALUE == <<"dax.anti_pattern.", S_lookupvalue>>

\* _slug(value)
_slug(value) ==
    LET cleaned == Lower(Strip(SubNonAlnumRuns(value, "_"), {"_"}))
    IN IF cleaned = <<>> THEN <<"r", "u", "l", "e">> ELSE cleaned

\* value[:n]
Prefix(value, n) == SubSeq(value, 1, IF Len(value) < n THEN Len(value) ELSE n)

SlugLimit == 40

RECOMMENDED_FORMAT ==
    <<"#", ",", "#", "#", "0", ".", "0", "0", ";", "(", "#", ",", "#", "#", "0", ".", "0", "0",
      ")", ";", "-">>

Desc(text, pattern, entry) == [text |-> text, pattern |-> pattern, entry |-> entry]

NoDesc == Desc("", "", <<>>)

NoTitle == <<"", <<>>>>

\* the automation, details and description of a StandardRule, flattened:
\* automation.check.matcher and .allowed, automation.auto_fix.type, .strategy
\* and .value, and details.default, which only the display folder rule has;
\* the other fields of the dataclass take their empty values until
\* StandardRule sets them
Rule(id, description, matcher, allowed, fix_type, fix_strategy, fix_value) ==
    [id |-> id, description |-> description, matcher |-> matcher, allowed |-> allowed,
     fix_type |-> fix_type, fix_strategy |-> fix_strategy, fix_value |-> fix_value,
     default |-> None,
     title |-> NoTitle, resource |-> "None", scope |-> "None", category |-> "None",
     severity |-> "None", references |-> <<>>, tags |-> <<>>, applies_to |-> <<>>,
     check_type |-> "None", check_rule |-> None, required_fields |-> None]

\* StandardRule(...).to_dict(): the dict the catalog holds for a rule.  A title
\* is the pair of its fixed text and the key interpolated into it; tags are
\* sorted(set(tags)); check_rule is automation.check.rule and required_fields
\* is details.required_fields, which automation.check.fields repeats.  The
\* entries left out repeat a field that is kept, in every rule the builders
\* emit: details.pattern the matcher, details.allowed the allowed list,
\* details.recommended the auto-fix value, check.rule_id the id, and
\* check.field, auto_fix.field and check.path are fixed by check_type
StandardRule(rule, title, resource, scope, category, severity, source, tags, applies_to, check_type) ==
    [rule EXCEPT !.title = title, !.resource = resource, !.scope = scope,
                 !.category = category, !.severity = severity, !.references = <<source>>,
                 !.tags = Sorted(tags), !.applies_to = applies_to, !.check_type = check_type]

\* a configuration dict: DAX_Templates.naming.{measures, columns, folders},
\* .coding and .performance (key, guidance pairs in file order, the keys of one
\* dict distinct), .anti_patterns, Power_Query_guide.formatting (pairs again) and
\* .doc_block (None when absent or empty, else its required fields); present tells the
\* dict with no key at all from the others.  The source of either section is
\* its default, the value dict.get gives when the key is absent
StandardsConfig(measures, columns, folders, coding, performance, anti_patterns, formatting, doc_block) ==
    [present |-> TRUE, measures |-> measures, columns |-> columns, folders |-> folders,
     coding |-> coding, performance |-> performance, anti_patterns |-> anti_patterns,
     formatting |-> formatting, doc_block |-> doc_block,
     dax_source |-> "external/DAX_Templates/Standards/02_DAX_Standards_and_Naming.md",
     pq_source |-> "external/Power_Query_guide/Standards/FORMATTER.md"]

\* a legacy configuration with a DAX_Templates section of naming, coding and
\* anti-patterns only
LegacyConfig(measures, columns, folders, coding, anti_patterns) ==
    StandardsConfig(measures, columns, folders, coding, <<>>, anti_patterns, <<>>, None)

\* the dict {}: every section takes its default
EmptyConfig ==
    [LegacyConfig("snake_case", "PascalCase", <<>>, <<>>, <<>>) EXCEPT !.present = FALSE]

\* the display folder rule around its automation
FolderRule(config, rule) ==
    StandardRule([rule EXCEPT !.default = config.folders[1]],
                 <<"Approved display folders", <<>>>>, "DAX", "measure", "organisation",
                 "info", config.dax_source, {Chars("display_folder"), Chars("organisation")},
                 <<"measure", "column">>, "membership")

\* variant: the auto-fix assigns the last allowed folder
DisplayFolderRules_lastFolder(config) ==
    IF config.folders # <<>>
    THEN <<FolderRule(config,
             Rule(ID_DISPLAY_FOLDER,
                  Desc("Measures and columns should reside in the curated display folders.",
                       "", <<>>),
                  "None", config.folders, "assign", "None", config.folders[Len(config.folders)]))>>
    ELSE <<>>

\* the display folder rule, emitted when folders is not empty
DisplayFolderRules(config) ==
    IF config.folders # <<>>
    THEN <<FolderRule(config,
             Rule(ID_DISPLAY_FOLDER,
                  Desc("Measures and columns should reside in the curated display folders.",
                       "", <<>>),
                  "None", config.folders, "assign", "None", config.folders[1]))>>
    ELSE <<>>

\* performance_scope.get(key, ["model"])
performance_scope(key) ==
    IF key \in {Chars("iterators"), Chars("measures")} THEN <<"measure">> ELSE <<"model">>

\* a rule built from one key and its guidance: the key goes into the id by its
\* slug and, as it is written, into the title, the tags and automation.check.rule
KeyedRule(prefix, key, guidance, title, resource, applies_to, category, source, tag, check_type) ==
    [StandardRule(Rule(<<prefix, _slug(key)>>, Desc(guidance, "", <<>>),
                       "None", <<>>, "None", "None", None),
                  <<title, key>>, resource, applies_to[1], category, "info", source,
                  {Chars(tag), key}, applies_to, check_type)
     EXCEPT !.check_rule = key]

_build_dax_rules(config) ==
    LET source == config.dax_source
        measure_rule ==
            StandardRule(
                Rule(ID_MEASURE_NAMING, Desc("Measures must follow: ", config.measures, <<>>),
                     config.measures, <<>>, "transform", "snake_case", None),
                <<"Measures follow snake_case with semantic prefix", <<>>>>, "DAX", "measure",
                "naming", "warning", source, {Chars("dax"), Chars("measure"), Chars("naming")},
                <<"measure">>, "pattern")
        column_rule ==
            StandardRule(
                Rule(ID_COLUMN_NAMING, Desc("Columns should follow: ", config.columns, <<>>),
                     config.columns, <<>>, "transform", "pascal_case_with_spaces", None),
                <<"Columns use PascalCase with optional spaces", <<>>>>, "DAX", "column",
                "naming", "info", source, {Chars("dax"), Chars("column"), Chars("naming")},
                <<"column">>, "pattern")
        folder_rules == DisplayFolderRules(config)
        coding_rules ==
            [i \in 1..Len(config.coding) |->
                KeyedRule("dax.coding.", config.coding[i][1], config.coding[i][2],
                          "DAX coding guideline: ", "DAX", <<"measure">>, "coding", source,
                          "coding", "lint")]
        performance_rules ==
            [i \in 1..Len(config.performance) |->
                KeyedRule("dax.performance.", config.performance[i][1], config.performance[i][2],
                          "DAX performance guideline: ", "DAX",
                          performance_scope(config.performance[i][1]), "performance", source,
                          "performance", "performance")]
        anti_rules ==
            [i \in 1..Len(config.anti_patterns) |->
                StandardRule(
                    Rule(<<"dax.anti_pattern.", Prefix(_slug(config.anti_patterns[i]), SlugLimit)>>,
                         Desc("", "", config.anti_patterns[i]), "None", <<>>, "None", "None", None),
                    <<"DAX anti-pattern", <<>>>>, "DAX", "measure", "anti_pattern", "warning",
                    source, {Chars("anti_pattern"), Chars("dax")}, <<"measure">>, "lint")]
        format_rule ==
            StandardRule(
                Rule(ID_FORMAT_STRING,
                     Desc("Measures should specify formatString for consistent reporting.", "", <<>>),
                     "None", <<>>, "assign", "None", RECOMMENDED_FORMAT),
                <<"Measures define formatString", <<>>>>, "DAX", "measure", "formatting",
                "warning", source, {Chars("formatting")}, <<"measure">>, "presence")
    IN <<measure_rule, column_rule>> \o folder_rules \o coding_rules \o performance_rules
       \o anti_rules \o <<format_rule>>

_build_power_query_rules(config) ==
    LET source == config.pq_source
        formatting_rules ==
            [i \in 1..Len(config.formatting) |->
                KeyedRule("power_query.formatting.", config.formatting[i][1],
                          config.formatting[i][2], "Power Query formatting: ", "PowerQuery",
                          <<"query">>, "formatting", source, "power_query", "formatter")]
        doc_rules ==
            IF config.doc_block # None
            THEN <<[StandardRule(
                      Rule(<<"power_query.documentation.doc_block_required", <<>>>>,
                           Desc("Power Query scripts require a documentation block with the specified fields.",
                                "", <<>>),
                           "None", <<>>, "None", "None", None),
                      <<"Power Query documentation block", <<>>>>, "PowerQuery", "query",
                      "documentation", "warning", source,
                      {Chars("documentation"), Chars("power_query")}, <<"query">>,
                      "required_fields")
                    EXCEPT !.required_fields = config.doc_block]>>
            ELSE <<>>
    IN formatting_rules \o doc_rules

\* build_catalog(config) for a config that is not empty, without the version
\* timestamp and the sources entry
build_catalog(config) ==
    LET rules == _build_dax_rules(config) \o _build_power_query_rules(config)
    IN [rule_count |-> Len(rules), rules |-> rules]

\* the legacy file external/standards_mcp.json: absent, or holding a configuration
LegacyFile(exists, content) == [exists |-> exists, content |-> content]

NoLegacyFile == LegacyFile(FALSE, EmptyConfig)

_legacy_config(legacy) == IF ~legacy.exists THEN EmptyConfig ELSE legacy.content

LEGACY_STANDARDS_PATH == Chars("external/standards_mcp.json")

\* build_catalog(config) called while the legacy file is as given, without the
\* version timestamp: a falsy argument, the empty dict, gives way to the legacy
\* file
build_catalog_on(legacy, config) ==
    LET cfg == IF ~config.present THEN _legacy_config(legacy) ELSE config
        base == build_catalog(cfg)
    IN [rule_count |-> base.rule_count,
        sources |-> IF legacy.exists THEN LEGACY_STANDARDS_PATH ELSE None,
        rules |-> base.rules]

\* load_catalog() when neither the catalog file nor the legacy file exists
EmptyCatalog == [rule_count |-> 0, rules |-> <<>>]

\* datetime.now(timezone.utc).isoformat() at clock reading now
Version(now) == <<"at", now>>

\* build_catalog(config) with its version timestamp
build_catalog_at(legacy, config, now) ==
    LET cat == build_catalog_on(legacy, config)
    IN [version |-> Version(now), rule_count |-> cat.rule_count, sources |-> cat.sources,
        rules |-> cat.rules]

\* the dict load_catalog returns when there is no file to load or build from
DefaultCatalog == [version |-> None, rule_count |-> 0, rules |-> <<>>]

\* the catalog file external/standards_catalog.json: absent, or holding a catalog
CatalogFile(exists, content) == [exists |-> exists, content |-> content]

NoCatalogFile == CatalogFile(FALSE, DefaultCatalog)

\* json.dumps then json.loads of a catalog gives the catalog back: its keys are
\* strings and its values strings, integers, lists, dicts and None
write_catalog(cat) == CatalogFile(TRUE, cat)

\* load_catalog, given the catalog build_catalog() would return
load_catalog_or(cfile, legacy, fresh) ==
    IF cfile.exists THEN cfile.content
    ELSE IF legacy.exists THEN fresh
    ELSE DefaultCatalog

load_catalog(cfile, legacy, now) ==
    load_catalog_or(cfile, legacy, build_catalog_at(legacy, _legacy_config(legacy), now))

_normalise_keepVersion(payload) == payload

\* sync._normalise: the payload without its version
_normalise(payload) == [k \in DOMAIN payload \ {"version"} |-> payload[k]]

\* what a run of sync.main prints and how it exits
SyncResult(status, reason, exit_code) ==
    [status |-> status, reason |-> reason, exit_code |-> exit_code]

\* the catalog sync.main works with, given the catalog build_catalog() would return
SyncCatalog(cfile, legacy, fresh) ==
    IF ~legacy.exists THEN load_catalog_or(cfile, legacy, fresh) ELSE fresh

\* sync.main after it has chosen its catalog: the result and the catalog file it leaves
main_with(check, cfile, cat) ==
    IF check
    THEN [file |-> cfile,
          result |-> IF ~cfile.exists THEN SyncResult("error", "catalog_missing", 1)
                     ELSE IF _normalise(cfile.content) # _normalise(cat)
                     THEN SyncResult("error", "catalog_outdated", 1)
                     ELSE SyncResult("ok", "None", 0)]
    ELSE [file |-> write_catalog(cat), result |-> SyncResult("synced", "None", 0)]

\* sync.main
main(check, cfile, legacy, now) ==
    main_with(check, cfile, SyncCatalog(cfile, legacy, build_catalog_at(legacy, EmptyConfig, now)))

\* RULE_LOOKUP.get(rule_id): a later rule of the same id replaces an earlier one
NoRule == Rule(NoRuleId, NoDesc, "None", <<>>, "None", "None", None)

HasRule(cat, rule_id) == \E i \in 1..Len(cat.rules) : cat.rules[i].id = rule_id

RULE_LOOKUP(cat, rule_id) ==
    IF HasRule(cat, rule_id)
    THEN LET last == CHOOSE i \in 1..Len(cat.rules) :
                        /\ cat.rules[i].id = rule_id
                        /\ \A j \in (i + 1)..Len(cat.rules) : cat.rules[j].id # rule_id
         IN cat.rules[last]
    ELSE NoRule

MEASURE_NAMING_RULE(cat) == RULE_LOOKUP(cat, ID_MEASURE_NAMING)
COLUMN_NAMING_RULE(cat) == RULE_LOOKUP(cat, ID_COLUMN_NAMING)
DISPLAY_FOLDER_RULE(cat) == RULE_LOOKUP(cat, ID_DISPLAY_FOLDER)
FORMAT_STRING_RULE(cat) == RULE_LOOKUP(cat, ID_FORMAT_STRING)

\* the compiled pattern a rule selects: PATTERN_STRATEGIES by auto-fix strategy
\* first, MATCHER_PATTERNS by matcher text second, otherwise none
_pattern_for_rule(rule) ==
    IF rule = NoRule THEN "None"
    ELSE IF rule.fix_strategy \in {"snake_case", "pascal_case_with_spaces"}
         THEN rule.fix_strategy
    ELSE IF rule.matcher = "snake_case with semantic prefix" THEN "snake_case"
    ELSE IF rule.matcher = "PascalCase with spaces for user-facing"
         THEN "pascal_case_with_spaces"
    ELSE "None"

\* pattern.match(name) for the pattern selected above
PatternMatch(pattern, n) ==
    IF pattern = "snake_case" THEN SNAKE_CASE_RE(n) ELSE PASCAL_CASE_WITH_SPACES_RE(n)

_allowed_values(rule) == IF rule = NoRule THEN <<>> ELSE rule.allowed

\* variant: the two transform strategies are crossed
_auto_fix_value_crossed(rule, current_value) ==
    IF rule = NoRule THEN None
    ELSE IF rule.fix_type = "transform"
         THEN IF rule.fix_strategy = "snake_case" /\ current_value # None
              THEN to_pascal_case_with_spaces(current_value)
              ELSE IF rule.fix_strategy = "pascal_case_with_spaces" /\ current_value # None
                   THEN to_snake_case(current_value)
                   ELSE None
    ELSE IF rule.fix_type = "assign" THEN rule.fix_value
    ELSE None

_auto_fix_value(rule, current_value) ==
    IF rule = NoRule THEN None
    ELSE IF rule.fix_type = "transform"
         THEN IF rule.fix_strategy = "snake_case" /\ current_value # None
              THEN to_snake_case(current_value)
              ELSE IF rule.fix_strategy = "pascal_case_with_spaces" /\ current_value # None
                   THEN to_pascal_case_with_spaces(current_value)
                   ELSE None
    ELSE IF rule.fix_type = "assign" THEN rule.fix_value
    ELSE None

Range(seq) == {seq[i] : i \in 1..Len(seq)}

ALLOWED_MEASURE_FOLDERS(cat) == Range(_allowed_values(DISPLAY_FOLDER_RULE(cat)))

FINAL_FOLDER == <<"_", "F", "i", "n", "a", "l">>

\* what next(iter(ALLOWED_MEASURE_FOLDERS), "_Final") can yield: a set of
\* strings is iterated in the order of the hashes of the process, so any member
\* can come first
FirstFolderChoices(cat) ==
    IF ALLOWED_MEASURE_FOLDERS(cat) = {} THEN {FINAL_FOLDER} ELSE ALLOWED_MEASURE_FOLDERS(cat)

\* the module constant, computed once when the module is imported; first_folder
\* is the member the iteration gave in this process.  The catalogs built by
\* build_catalog assign a value whenever they list folders, so the iteration
\* decides only for a catalog file written by other means.
DEFAULT_MEASURE_FOLDER(cat) ==
    Or(_auto_fix_value(DISPLAY_FOLDER_RULE(cat), None), first_folder)

DEFAULT_FORMAT_STRING(cat) == Or(_auto_fix_value(FORMAT_STRING_RULE(cat), None), RECOMMENDED_FORMAT)

\* variant: the catalog is never consulted
lookup_standards_message_fallbackOnly(cat, rule_id, fallback) == fallback

lookup_standards_message(cat, rule_id, fallback) ==
    IF rule_id # NoRuleId /\ HasRule(cat, rule_id)
    THEN RULE_LOOKUP(cat, rule_id).description
    ELSE fallback

----------------------------------------------------------------------------
(* Expression anti-pattern scanner: detect_dax_issues                      *)

\* sub is a substring of s starting at position i
StartsAt(s, i, sub) ==
    /\ i >= 1
    /\ i + Len(sub) - 1 <= Len(s)
    /\ SubSeq(s, i, i + Len(sub) - 1) = sub

\* sub in s
Contains(s, sub) == \E i \in 1..(Len(s) + 1) : StartsAt(s, i, sub)

\* the first position at or after i where sub starts, 0 when there is none
FindFrom(s, i, sub) ==
    IF \E j \in i..Len(s) : StartsAt(s, j, sub)
    THEN CHOOSE j \in i..Len(s) :
            /\ StartsAt(s, j, sub)
            /\ \A k \in i..(j - 1) : ~StartsAt(s, k, sub)
    ELSE 0

\* re.sub of the non-greedy block comment pattern with re.S: each comment opener
\* is removed up to the nearest closer that starts after it; an opener with no
\* closer stays
RECURSIVE StripBlockComments(_)
StripBlockComments(s) ==
    IF s = <<>> THEN <<>>
    ELSE IF StartsAt(s, 1, <<"/", "*">>) /\ FindFrom(s, 3, <<"*", "/">>) # 0
         THEN StripBlockComments(SubSeq(s, FindFrom(s, 3, <<"*", "/">>) + 2, Len(s)))
         ELSE <<Head(s)>> \o StripBlockComments(Tail(s))

\* str.splitlines() for the line break of the model
RECURSIVE SplitLines(_, _)
SplitLines(s, line) ==
    IF s = <<>> THEN (IF line = <<>> THEN <<>> ELSE <<line>>)
    ELSE IF Head(s) = "\n" THEN <<line>> \o SplitLines(Tail(s), <<>>)
    ELSE SplitLines(Tail(s), Append(line, Head(s)))

\* text.split(sep, 1)[0]
Before(text, sep) ==
    IF FindFrom(text, 1, sep) = 0 THEN text ELSE SubSeq(text, 1, FindFrom(text, 1, sep) - 1)

\* variant: only the double slash starts a line comment
RECURSIVE CodeLines_slashOnly(_)
CodeLines_slashOnly(raw_lines) ==
    IF raw_lines = <<>> THEN <<>>
    ELSE LET no_line_comment == Before(Head(raw_lines), <<"/", "/">>)
         IN IF Strip(no_line_comment, WhiteSpace) # <<>>
            THEN <<no_line_comment>> \o CodeLines_slashOnly(Tail(raw_lines))
            ELSE CodeLines_slashOnly(Tail(raw_lines))

\* the loop over cleaned.splitlines(): line comments are cut, blank lines dropped
RECURSIVE CodeLines(_)
CodeLines(raw_lines) ==
    IF raw_lines = <<>> THEN <<>>
    ELSE LET no_line_comment == Before(Before(Head(raw_lines), <<"/", "/">>), <<"-", "-">>)
         IN IF Strip(no_line_comment, WhiteSpace) # <<>>
            THEN <<no_line_comment>> \o CodeLines(Tail(raw_lines))
            ELSE CodeLines(Tail(raw_lines))

\* re.finditer of ALL, optional whitespace, an opening parenthesis, one or more
\* characters other than a closing parenthesis, a closing parenthesis: TRUE iff
\* some match found by the left-to-right, non-overlapping scan from position i
\* has no opening bracket in its argument
RECURSIVE AllTableFrom(_, _)
AllTableFrom(s, i) ==
    IF i > Len(s) THEN FALSE
    ELSE LET open == Len(LStrip(SubSeq(s, i + 3, Len(s)), WhiteSpace))
             \* position of the first character that is not whitespace after ALL
             q == Len(s) - open + 1
             close == FindFrom(s, q + 1, <<")">>)
             matched == /\ StartsAt(s, i, <<"A", "L", "L">>)
                        /\ q <= Len(s)
                        /\ s[q] = "("
                        /\ close > q + 1
         IN IF matched
            THEN IF ~Contains(SubSeq(s, q + 1, close - 1), <<"[">>) THEN TRUE
                 ELSE AllTableFrom(s, close + 1)
            ELSE AllTableFrom(s, i + 1)

Finding(cat, rule_id, fallback) ==
    [rule_id |-> rule_id, rule |-> lookup_standards_message(cat, rule_id, Desc(fallback, "", <<>>))]

GiantMeasureLines == 4

detect_dax_issues(cat, expression) ==
    IF Falsy(expression) THEN <<>>
    ELSE
    LET cleaned == StripBlockComments(expression)
        lines == CodeLines(SplitLines(cleaned, <<>>))
        normalized == Join(lines, <<"\n">>)
        normalized_upper == Upper(normalized)
        division ==
            IF Contains(normalized, <<"/">>)
               /\ ~Contains(normalized_upper, <<"D", "I", "V", "I", "D", "E", "(">>)
            THEN <<Finding(cat, ID_DIVISION,
                     "Use DIVIDE() instead of the raw division operator to avoid division-by-zero.")>>
            ELSE <<>>
        counting ==
            IF Contains(normalized_upper, <<"C", "O", "U", "N", "T", "(">>)
               /\ ~Contains(normalized_upper, <<"C", "O", "U", "N", "T", "R", "O", "W", "S", "(">>)
            THEN <<Finding(cat, ID_COUNTING,
                     "Prefer COUNTROWS() over COUNT(<column>) for row counting.")>>
            ELSE <<>>
        giant ==
            IF Len(lines) >= GiantMeasureLines
               /\ ~Contains(normalized_upper, <<"V", "A", "R", " ">>)
            THEN <<Finding(cat, ID_GIANT,
                     "Long DAX measures should declare intermediate VAR blocks for readability.")>>
            ELSE <<>>
        all_table ==
            IF AllTableFrom(normalized_upper, 1)
            THEN <<Finding(cat, ID_ALL_TABLE,
                     "Use ALL(<column>) instead of ALL(<table>) to preserve slicer context when possible.")>>
            ELSE <<>>
        lookupvalue ==
            IF Contains(normalized_upper,
                        <<"L", "O", "O", "K", "U", "P", "V", "A", "L", "U", "E", "(">>)
            THEN <<Finding(cat, ID_LOOKUPVALUE,
                     "LOOKUPVALUE detected. Prefer model relationships or TREATAS for relational filtering.")>>
            ELSE <<>>
    IN division \o counting \o giant \o all_table \o lookupvalue

----------------------------------------------------------------------------
(* Standards validator: validate_standards                                 *)
(*                                                                         *)
(* The suggested value of an issue is a string for most checks and the     *)
(* sorted list of allowed folders for the out-of-set check; it carries its *)
(* type as a tag.  A key the code leaves out of a dict is None here, and   *)
(* the action key left out of a rename fix is the action None.             *)

Str(v) == <<"str", v>>

List(v) == <<"list", v>>

Issue(entity, n, rule_id, rule, suggested, found) ==
    [entity |-> entity, name |-> n, rule_id |-> rule_id, rule |-> rule,
     suggested |-> suggested, found |-> found]

Fix(entity, table, current, suggested, action, rule_id) ==
    [entity |-> entity, table |-> table, current |-> current, suggested |-> suggested,
     action |-> action, rule_id |-> rule_id]

\* (rule or {}).get("description", fallback)
DescriptionOr(rule, fallback) ==
    IF rule = NoRule THEN Desc(fallback, "", <<>>) ELSE rule.description

Out(is, fs) == [issues |-> is, fixes |-> fs]

NoOut == Out(<<>>, <<>>)

\* the naming check of one measure or column
NamingCheck(cat, entity, e) ==
    LET naming_rule == IF entity = "measure" THEN MEASURE_NAMING_RULE(cat)
                       ELSE COLUMN_NAMING_RULE(cat)
        fallback_pattern == IF entity = "measure" THEN "snake_case"
                            ELSE "pascal_case_with_spaces"
        pattern == IF _pattern_for_rule(naming_rule) = "None" THEN fallback_pattern
                   ELSE _pattern_for_rule(naming_rule)
        suggested == Or(_auto_fix_value(naming_rule, e.name),
                        IF entity = "measure" THEN to_snake_case(e.name)
                        ELSE to_pascal_case_with_spaces(e.name))
        fallback == IF entity = "measure"
                    THEN "DAX measures must follow snake_case with a semantic prefix"
                    ELSE "Columns should use PascalCase with optional spaces"
    IN IF ~PatternMatch(pattern, e.name)
       THEN Out(<<Issue(entity, e.name, naming_rule.id, DescriptionOr(naming_rule, fallback),
                        Str(suggested), None)>>,
                <<Fix(entity, e.table, e.name, Str(suggested), "None", naming_rule.id)>>)
       ELSE NoOut

\* the folder fix, emitted under the given condition
FolderFix(cat, cond, entity, e, default_folder) ==
    IF cond
    THEN <<Fix(entity, e.table, e.name, Str(default_folder), "set_display_folder",
               DISPLAY_FOLDER_RULE(cat).id)>>
    ELSE <<>>

\* variant: a measure without a folder is flagged only when the catalog lists
\* allowed folders
MeasureFolderCheck_needsAllowed(cat, m) ==
    LET rule == DISPLAY_FOLDER_RULE(cat)
        allowed_folders == ALLOWED_MEASURE_FOLDERS(cat)
        default_folder == Or(_auto_fix_value(rule, None), DEFAULT_MEASURE_FOLDER(cat))
    IN IF allowed_folders = {} THEN NoOut
       ELSE IF Falsy(m.display_folder)
       THEN Out(<<Issue("measure", m.name, rule.id,
                        DescriptionOr(rule,
                            "Measures should define a display folder for report organization"),
                        Str(default_folder), None)>>,
                FolderFix(cat, Truthy(m.table), "measure", m, default_folder))
       ELSE IF m.display_folder \notin allowed_folders
       THEN Out(<<Issue("measure", m.name, rule.id,
                        DescriptionOr(rule, "Display folder should match approved MCP catalog"),
                        List(Sorted(allowed_folders)), m.display_folder)>>,
                FolderFix(cat, Truthy(m.table), "measure", m, default_folder))
       ELSE NoOut

\* the display-folder check of one measure
MeasureFolderCheck(cat, m) ==
    LET rule == DISPLAY_FOLDER_RULE(cat)
        allowed_folders == IF ALLOWED_MEASURE_FOLDERS(cat) # {} THEN ALLOWED_MEASURE_FOLDERS(cat)
                           ELSE Range(_allowed_values(rule))
        default_folder == Or(_auto_fix_value(rule, None), DEFAULT_MEASURE_FOLDER(cat))
    IN IF Falsy(m.display_folder)
       THEN Out(<<Issue("measure", m.name, rule.id,
                        DescriptionOr(rule,
                            "Measures should define a display folder for report organization"),
                        Str(default_folder), None)>>,
                FolderFix(cat, Truthy(m.table), "measure", m, default_folder))
       ELSE IF allowed_folders # {} /\ m.display_folder \notin allowed_folders
       THEN Out(<<Issue("measure", m.name, rule.id,
                        DescriptionOr(rule, "Display folder should match approved MCP catalog"),
                        List(Sorted(allowed_folders)), m.display_folder)>>,
                FolderFix(cat, Truthy(m.table) /\ allowed_folders # {}, "measure", m,
                          default_folder))
       ELSE NoOut

\* the format-string check of one measure
FormatCheck(cat, m) ==
    LET rule == FORMAT_STRING_RULE(cat)
        suggested_format == Or(_auto_fix_value(rule, None), DEFAULT_FORMAT_STRING(cat))
    IN IF Falsy(m.format_string)
       THEN Out(<<Issue("measure", m.name, rule.id,
                        DescriptionOr(rule,
                            "Measures should specify formatString for consistent presentation"),
                        Str(suggested_format), None)>>,
                IF Truthy(m.table)
                THEN <<Fix("measure", m.table, m.name, Str(suggested_format),
                           "set_format_string", rule.id)>>
                ELSE <<>>)
       ELSE NoOut

\* variant: every scanner finding also gets a fix entry
DaxCheck_withFix(cat, m) ==
    LET expression == Strip(Or(m.expression, <<>>), WhiteSpace)
        found == detect_dax_issues(cat, expression)
    IN Out([i \in 1..Len(found) |->
                Issue("measure", m.name, found[i].rule_id, found[i].rule, None, None)],
           [i \in 1..Len(found) |->
                Fix("measure", m.table, m.name, None, "rewrite_expression", found[i].rule_id)])

\* the scanner findings of one measure, tagged with the measure
DaxCheck(cat, m) ==
    LET expression == Strip(Or(m.expression, <<>>), WhiteSpace)
        found == detect_dax_issues(cat, expression)
    IN Out([i \in 1..Len(found) |->
                Issue("measure", m.name, found[i].rule_id, found[i].rule, None, None)],
           <<>>)

\* the display-folder check of one column
ColumnFolderCheck(cat, c) ==
    LET rule == DISPLAY_FOLDER_RULE(cat)
        allowed_folders ==
            IF Truthy(c.display_folder)
            THEN (IF ALLOWED_MEASURE_FOLDERS(cat) # {} THEN ALLOWED_MEASURE_FOLDERS(cat)
                  ELSE Range(_allowed_values(rule)))
            ELSE {}
        default_folder == Or(_auto_fix_value(rule, None), DEFAULT_MEASURE_FOLDER(cat))
    IN IF Truthy(c.display_folder) /\ allowed_folders # {}
          /\ c.display_folder \notin allowed_folders
       THEN Out(<<Issue("column", c.name, rule.id,
                        DescriptionOr(rule,
                            "Column display folders should use approved naming conventions"),
                        List(Sorted(allowed_folders)), c.display_folder)>>,
                FolderFix(cat, Truthy(c.table) /\ allowed_folders # {}, "column", c,
                          default_folder))
       ELSE NoOut

Both(a, b) == Out(a.issues \o b.issues, a.fixes \o b.fixes)

\* variant: the scanner runs before the format-string check
MeasureChecks_scannerEarly(cat, m) ==
    Both(Both(NamingCheck(cat, "measure", m), MeasureFolderCheck(cat, m)),
         Both(DaxCheck(cat, m), FormatCheck(cat, m)))

\* one iteration of the loop over the measures
MeasureChecks(cat, m) ==
    Both(Both(NamingCheck(cat, "measure", m), MeasureFolderCheck(cat, m)),
         Both(FormatCheck(cat, m), DaxCheck(cat, m)))

\* one iteration of the loop over the columns
ColumnChecks(cat, c) == Both(NamingCheck(cat, "column", c), ColumnFolderCheck(cat, c))

\* the dict returned by validate_standards (the source and reason texts are left out)
ValidationResult(status, is, fs) ==
    [status |-> status, issues |-> is, auto_fixes |-> fs, issue_count |-> Len(is)]

SkippedResult == ValidationResult("skipped", <<>>, <<>>)

\* variant: the status is taken from the fixes that could be rendered, so issues
\* that carry no fix leave it at ok
StatusOf_fromFixable(is) ==
    IF SelectSeq(is, LAMBDA i : i.suggested # None) = <<>> THEN "ok" ELSE "issues_found"

StatusOf(is) == IF is = <<>> THEN "ok" ELSE "issues_found"

\* the entries of the measures and columns lists of a structure
Measure(table, n, display_folder, format_string, expression) ==
    [table |-> table, name |-> n, display_folder |-> display_folder,
     format_string |-> format_string, expression |-> expression]

Column(table, n, display_folder) ==
    [table |-> table, name |-> n, display_folder |-> display_folder]

\* a structure: the empty dict of a failed load, or the three lists
EmptyStructure == [parsed |-> FALSE, tables |-> <<>>, measures |-> <<>>, columns |-> <<>>]

Structure(tables, measures, columns) ==
    [parsed |-> TRUE, tables |-> tables, measures |-> measures, columns |-> columns]

RECURSIVE AllMeasureChecks(_, _)
AllMeasureChecks(cat, measures) ==
    IF measures = <<>> THEN NoOut
    ELSE Both(MeasureChecks(cat, Head(measures)), AllMeasureChecks(cat, Tail(measures)))

RECURSIVE AllColumnChecks(_, _)
AllColumnChecks(cat, columns) ==
    IF columns = <<>> THEN NoOut
    ELSE Both(ColumnChecks(cat, Head(columns)), AllColumnChecks(cat, Tail(columns)))

\* validate_standards as one call, as run_source makes it
validate_standards(cat, struct) ==
    IF ~struct.parsed THEN SkippedResult
    ELSE LET out == Both(AllMeasureChecks(cat, struct.measures),
                         AllColumnChecks(cat, struct.columns))
         IN ValidationResult(StatusOf(out.issues), out.issues, out.fixes)

----------------------------------------------------------------------------
(* Patch generator: generate_tmdl_corrections.  A fix is the record the     *)
(* validator builds; the action None is a fix without the action key.      *)

\* value.replace(ch, rep) for a one-character ch
RECURSIVE Replace(_, _, _)
Replace(value, ch, rep) ==
    IF value = <<>> THEN <<>>
    ELSE (IF Head(value) = ch THEN rep ELSE <<Head(value)>>) \o Replace(Tail(value), ch, rep)

escape_single_quotes(value) == Replace(value, "'", <<"'", "'">>)

escape_brackets(value) == Replace(value, "]", <<"]", "]">>)

\* the quote repr() puts around a str: the double quote when the text holds a
\* single quote and no double quote, the single quote otherwise
ReprQuote(text) ==
    IF "'" \in Range(text) /\ "\"" \notin Range(text) THEN "\"" ELSE "'"

\* what repr() writes for one character inside the quotes: the backslash and
\* the chosen quote are escaped, newline, tab and return are written as their
\* escapes, another printable character is itself
ReprChar(c, quote) ==
    IF c = "\\" THEN <<"\\", "\\">>
    ELSE IF c = quote THEN <<"\\", c>>
    ELSE IF c = "\n" THEN <<"\\", "n">>
    ELSE IF c = "\t" THEN <<"\\", "t">>
    ELSE IF c = "\r" THEN <<"\\", "r">>
    ELSE <<c>>

\* repr(text) of a str of printable characters
PyRepr(text) ==
    <<ReprQuote(text)>>
    \o Join([k \in 1..Len(text) |-> ReprChar(text[k], ReprQuote(text))], <<>>)
    \o <<ReprQuote(text)>>

\* str(suggested): a string is itself; a list of strings is the repr of its
\* items, separated by a comma and a space, in square brackets
PyStr(suggested) ==
    IF suggested[1] = "list"
    THEN <<"[">>
         \o Join([k \in 1..Len(suggested[2]) |-> PyRepr(suggested[2][k])], <<",", " ">>)
         \o <<"]">>
    ELSE suggested[2]

qualify(entity, table, n) ==
    LET table_ref == IF Truthy(table)
                     THEN <<"'">> \o escape_single_quotes(table) \o <<"'">>
                     ELSE <<>>
        identifier == <<"[">> \o escape_brackets(n) \o <<"]">>
        prefix == IF entity = "measure" THEN Chars("MEASURE") ELSE Chars("COLUMN")
    IN prefix \o <<" ">> \o table_ref \o identifier

TMDL_HEADER == Chars("// Suggested safe statements (review before applying)")

\* variant: a fix without the action key is not treated as a rename
TmdlStatement_noDefault(fix) ==
    LET action == fix.action
        qualified == qualify(fix.entity, fix.table, fix.current)
    IN IF Falsy(fix.table) \/ Falsy(fix.current) \/ fix.suggested = None THEN <<>>
       ELSE IF action = "rename"
       THEN <<Chars("ALTER ") \o qualified \o Chars(" RENAME TO [")
              \o escape_brackets(PyStr(fix.suggested)) \o Chars("];")>>
       ELSE IF action = "set_display_folder"
       THEN <<Chars("ALTER ") \o qualified \o Chars(" SET DISPLAYFOLDER = '")
              \o escape_single_quotes(PyStr(fix.suggested)) \o Chars("';")>>
       ELSE IF action = "set_format_string"
       THEN <<Chars("ALTER ") \o qualified \o Chars(" SET FORMAT_STRING = \"")
              \o Replace(PyStr(fix.suggested), "\"", <<"\"", "\"">>) \o Chars("\";")>>
       ELSE <<Chars("// Pending support for action '") \o Chars(action) \o Chars("' on ")
              \o Chars(fix.entity) \o <<" ">> \o fix.table \o <<".">> \o fix.current
              \o Chars(" -> ") \o PyStr(fix.suggested)>>

\* the body of the loop over the fixes: the lines one fix appends, none or one
TmdlStatement(fix) ==
    LET action == IF fix.action = "None" THEN "rename" ELSE fix.action
        qualified == qualify(fix.entity, fix.table, fix.current)
    IN IF Falsy(fix.table) \/ Falsy(fix.current) \/ fix.suggested = None THEN <<>>
       ELSE IF action = "rename"
       THEN <<Chars("ALTER ") \o qualified \o Chars(" RENAME TO [")
              \o escape_brackets(PyStr(fix.suggested)) \o Chars("];")>>
       ELSE IF action = "set_display_folder"
       THEN <<Chars("ALTER ") \o qualified \o Chars(" SET DISPLAYFOLDER = '")
              \o escape_single_quotes(PyStr(fix.suggested)) \o Chars("';")>>
       ELSE IF action = "set_format_string"
       THEN <<Chars("ALTER ") \o qualified \o Chars(" SET FORMAT_STRING = \"")
              \o Replace(PyStr(fix.suggested), "\"", <<"\"", "\"">>) \o Chars("\";")>>
       ELSE <<Chars("// Pending support for action '") \o Chars(action) \o Chars("' on ")
              \o Chars(fix.entity) \o <<" ">> \o fix.table \o <<".">> \o fix.current
              \o Chars(" -> ") \o PyStr(fix.suggested)>>

RECURSIVE TmdlStatements(_)
TmdlStatements(fix_list) ==
    IF fix_list = <<>> THEN <<>>
    ELSE TmdlStatement(Head(fix_list)) \o TmdlStatements(Tail(fix_list))

generate_tmdl_corrections(fix_list) ==
    IF fix_list = <<>> THEN <<>>
    ELSE Join(<<TMDL_HEADER>> \o TmdlStatements(fix_list), <<"\n">>) \o <<"\n">>

----------------------------------------------------------------------------
(* Domain classification: determine_primary_domain, infer_intent,          *)
(* load_profile_metadata, enrich_metadata and classify_source.  A metadata  *)
(* dict is a function from its keys to tagged values: a string or a list   *)
(* of strings.  A Counter is the sequence of its (domain, count) pairs in  *)
(* insertion order.                                                        *)

DOMAIN_KEYWORDS ==
    << <<"sales", {"sales", "revenue", "margin", "customer", "crm", "pipeline", "quote", "deal"}>>,
       <<"finance", {"finance", "financial", "ledger", "pnl", "balance", "cash", "gl", "account"}>>,
       <<"supply_chain", {"inventory", "warehouse", "logistics", "supply", "demand", "shipment",
                          "stock"}>>,
       <<"marketing", {"campaign", "marketing", "lead", "click", "impression", "conversion"}>>,
       <<"hr", {"hr", "employee", "headcount", "attrition", "payroll", "recruit"}>> >>

\* metadata.get(key)
Get(dict, key) == IF key \in DOMAIN dict THEN dict[key] ELSE None

IsStr(value) == value # None /\ value[1] = "str"

IsList(value) == value # None /\ value[1] = "list"

\* truthiness of a value: None and the empty string or list are falsy
TruthyValue(value) == value # None /\ value[2] # <<>>

\* counter[domain] += n
CounterAdd(counter, domain, n) ==
    IF \E k \in 1..Len(counter) : counter[k][1] = domain
    THEN [k \in 1..Len(counter) |->
            IF counter[k][1] = domain THEN <<domain, counter[k][2] + n>> ELSE counter[k]]
    ELSE Append(counter, <<domain, n>>)

\* the loop over DOMAIN_KEYWORDS.items() for one lowered text, from entry k on:
\* base points when the domain name is in the text, one point per keyword in it
RECURSIVE ScoreText(_, _, _, _)
ScoreText(counter, lowered, base, k) ==
    IF k > Len(DOMAIN_KEYWORDS) THEN counter
    ELSE LET domain == DOMAIN_KEYWORDS[k][1]
             points == (IF Contains(lowered, Chars(domain)) THEN base ELSE 0)
                       + Cardinality({keyword \in DOMAIN_KEYWORDS[k][2] :
                                         Contains(lowered, Chars(keyword))})
         IN ScoreText(IF points > 0 THEN CounterAdd(counter, domain, points) ELSE counter,
                      lowered, base, k + 1)

RECURSIVE ScoreTexts(_, _, _)
ScoreTexts(counter, texts, base) ==
    IF texts = <<>> THEN counter
    ELSE ScoreTexts(ScoreText(counter, Lower(Head(texts)), base, 1), Tail(texts), base)

METADATA_DOMAIN_KEYS == <<"domain", "business_domain", "domains", "tags", "topics", "business_units">>

\* the values list: strings as they are, lists item by item
RECURSIVE MetadataValues(_, _)
MetadataValues(metadata, k) ==
    IF k > Len(METADATA_DOMAIN_KEYS) THEN <<>>
    ELSE LET value == Get(metadata, METADATA_DOMAIN_KEYS[k])
         IN (IF IsStr(value) THEN <<value[2]>>
             ELSE IF IsList(value) THEN value[2]
             ELSE <<>>) \o MetadataValues(metadata, k + 1)

infer_domains_from_metadata(metadata) == ScoreTexts(<<>>, MetadataValues(metadata, 1), 2)

infer_domains_from_structure(struct) ==
    IF ~struct.parsed THEN <<>>
    ELSE ScoreTexts(ScoreTexts(<<>>, struct.tables, 3),
                    [k \in 1..Len(struct.columns) |-> struct.columns[k].name], 2)

\* counter.update(other)
RECURSIVE CounterUpdate(_, _)
CounterUpdate(counter, other) ==
    IF other = <<>> THEN counter
    ELSE CounterUpdate(CounterAdd(counter, Head(other)[1], Head(other)[2]), Tail(other))

\* one step of the stable sort by descending count
InsertRanked(ranked, item) ==
    LET before == SelectSeq(ranked, LAMBDA r : r[2] >= item[2])
        after == SelectSeq(ranked, LAMBDA r : r[2] < item[2])
    IN before \o <<item>> \o after

\* counter.most_common(): by descending count, equal counts in insertion order
RECURSIVE most_common(_, _)
most_common(counter, ranked) ==
    IF counter = <<>> THEN ranked
    ELSE most_common(Tail(counter), InsertRanked(ranked, Head(counter)))

Max(a, b) == IF a >= b THEN a ELSE b

\* variant: only a tie at the top makes the result multi-domain
NearTop_tiesOnly(ranked) ==
    SelectSeq(ranked, LAMBDA item : item[2] >= ranked[1][2] /\ item[2] > 0)

NearTop(ranked) ==
    SelectSeq(ranked, LAMBDA item : item[2] >= Max(1, ranked[1][2] - 1) /\ item[2] > 0)

\* the counter of determine_primary_domain before it is resolved
DomainCounter(metadata, struct, stem) ==
    ScoreText(CounterUpdate(CounterUpdate(<<>>, infer_domains_from_metadata(metadata)),
                            infer_domains_from_structure(struct)),
              Lower(stem), 2, 1)

\* the pair (domain, ranked) that determine_primary_domain returns
determine_primary_domain(metadata, struct, stem) ==
    LET counter == DomainCounter(metadata, struct, stem)
        ranked == most_common(counter, <<>>)
    IN IF counter = <<>> THEN [domain |-> "generic", ranked |-> <<>>]
       ELSE IF Len(NearTop(ranked)) > 1 THEN [domain |-> "multi-domain", ranked |-> ranked]
       ELSE [domain |-> ranked[1][1], ranked |-> ranked]

infer_intent(metadata, struct) ==
    LET intent == IF TruthyValue(Get(metadata, "intent")) THEN Get(metadata, "intent")
                  ELSE Get(metadata, "purpose")
        measure_count == IF struct.parsed THEN Len(struct.measures) ELSE 0
        column_count == IF struct.parsed THEN Len(struct.columns) ELSE 0
    IN IF IsStr(intent) THEN intent
       ELSE IF measure_count > column_count THEN Str(Chars("analytics"))
       ELSE IF column_count > 0 /\ column_count > measure_count * 2 THEN Str(Chars("modeling"))
       ELSE Str(Chars("review"))

EmptyDict == <<>>

\* value.replace(sub, rep, 1)
ReplaceFirst(value, sub, rep) ==
    LET at == FindFrom(value, 1, sub)
    IN IF at = 0 THEN value
       ELSE SubSeq(value, 1, at - 1) \o rep \o SubSeq(value, at + Len(sub), Len(value))

\* the profile store: whether PROFILE_ROOT exists, and the metadata.json of each
\* profile directory that has one
ProfileStore(exists, files) == [exists |-> exists, files |-> files]

load_profile_metadata(profiles, profile_key) ==
    IF ~profiles.exists THEN EmptyDict
    ELSE LET key == Chars(profile_key)
             normalized == <<key, ReplaceFirst(key, Chars("case_"), <<>>),
                             Replace(key, "-", <<"_">>), Replace(key, " ", <<"_">>)>>
             candidates == [k \in 1..Len(normalized) |-> Lower(Strip(normalized[k], WhiteSpace))]
             found == SelectSeq(candidates,
                                LAMBDA c : c # <<>> /\ c \in DOMAIN profiles.files)
         IN IF found # <<>> THEN profiles.files[found[1]]
            ELSE IF Chars("default") \in DOMAIN profiles.files
            THEN profiles.files[Chars("default")]
            ELSE EmptyDict

\* the elements of {*value}: the items of a list, the characters of a string
Elements(value) ==
    IF IsList(value) THEN Range(value[2]) ELSE {<<value[2][k]>> : k \in 1..Len(value[2])}

enrich_metadata(metadata, profile_metadata) ==
    LET merged == [k \in DOMAIN profile_metadata \cup DOMAIN metadata |->
                      IF k \in DOMAIN metadata THEN metadata[k] ELSE profile_metadata[k]]
    IN IF "tags" \in DOMAIN profile_metadata /\ "tags" \in DOMAIN metadata
       THEN [merged EXCEPT !["tags"] =
                IF IsList(metadata["tags"])
                THEN List(Sorted(Elements(profile_metadata["tags"])
                                 \cup Elements(metadata["tags"])))
                ELSE profile_metadata["tags"]]
       ELSE merged

\* the profile key classify_source looks up
ProfileKey(primary) ==
    IF primary.domain = "multi-domain" /\ primary.ranked # <<>>
    THEN primary.ranked[1][1]
    ELSE primary.domain

classify_source(profiles, stem, metadata, struct) ==
    LET primary == determine_primary_domain(metadata, struct, stem)
        profile_meta == load_profile_metadata(profiles, ProfileKey(primary))
    IN [domain |-> primary.domain,
        intent |-> infer_intent(metadata, struct),
        metadata |-> enrich_metadata(metadata, profile_meta),
        domain_candidates |-> primary.ranked,
        profile_loaded |-> profile_meta # EmptyDict]

----------------------------------------------------------------------------
(* Model-structure loader: load_model_structure                            *)
(*                                                                         *)
(* A source is what the path holds: nothing, a directory, a file of the    *)
(* wrong suffix, a file whose bytes read_text cannot decode (undecodable), *)
(* text json.loads rejects with JSONDecodeError (invalid_json), JSON       *)
(* nested deeper than the parser recurses (too_deep), or a JSON document.  *)
(* A JSON value is an object (kind object) or anything else (kind other,   *)
(* with a truth value); a key an object lacks is the value Absent.         *)

Absent == [kind |-> "absent", truthy |-> FALSE]

Other(truthy) == [kind |-> "other", truthy |-> truthy]

JMeasure(n, Name, displayFolder, formatString, expression) ==
    [kind |-> "object", truthy |-> TRUE, name |-> n, Name |-> Name,
     displayFolder |-> displayFolder, formatString |-> formatString,
     expression |-> expression]

JColumn(n, Name, displayFolder) ==
    [kind |-> "object", truthy |-> TRUE, name |-> n, Name |-> Name,
     displayFolder |-> displayFolder]

\* measures and columns are JSON lists; a missing key reads as the empty list
JTable(n, Name, measures, columns) ==
    [kind |-> "object", truthy |-> TRUE, name |-> n, Name |-> Name,
     measures |-> measures, columns |-> columns]

\* tables is a JSON list
JModel(tables) == [kind |-> "object", truthy |-> TRUE, tables |-> tables]

JDoc(model) == [kind |-> "object", truthy |-> TRUE, model |-> model]

Source(kind, doc) == [kind |-> kind, doc |-> doc]

Loaded(struct) == [raised |-> "None", structure |-> struct]


Raised(exc) == [raised |-> exc, structure |-> EmptyStructure]

\* the outcome of the three loading calls of run_source: the exception that
\* left run_source and the call it came from, or the structure
LoadOutcome(exc, origin, struct) == [raised |-> exc, origin |-> origin, structure |-> struct]

\* the measures of one table, in order; the entries with no name are skipped.
\* displayFolder, formatString and expression stand for the value of the
\* lower-case key or else the capitalised key
RECURSIVE TableMeasures(_, _)
TableMeasures(table_name, entries) ==
    IF entries = <<>> THEN <<>>
    ELSE LET measure == Head(entries)
             measure_name == Or(measure.name, measure.Name)
         IN (IF Truthy(measure_name)
             THEN <<Measure(table_name, measure_name, measure.displayFolder,
                            measure.formatString, measure.expression)>>
             ELSE <<>>) \o TableMeasures(table_name, Tail(entries))

RECURSIVE TableColumns(_, _)
TableColumns(table_name, entries) ==
    IF entries = <<>> THEN <<>>
    ELSE LET column == Head(entries)
             column_name == Or(column.name, column.Name)
         IN (IF Truthy(column_name)
             THEN <<Column(table_name, column_name, column.displayFolder)>>
             ELSE <<>>) \o TableColumns(table_name, Tail(entries))

AllObjects(entries) == \A i \in 1..Len(entries) : entries[i].kind = "object"

\* the loop over tables_raw; calling get on an entry that is not an object
\* raises AttributeError, which the function does not catch
RECURSIVE LoadTables(_, _)
LoadTables(tables_raw, acc) ==
    IF tables_raw = <<>> THEN Loaded(acc)
    ELSE LET table == Head(tables_raw)
             table_name == Or(table.name, table.Name)
         IN IF table.kind # "object" THEN Raised("AttributeError")
            ELSE IF ~AllObjects(table.measures) THEN Raised("AttributeError")
            ELSE IF ~AllObjects(table.columns) THEN Raised("AttributeError")
            ELSE LoadTables(Tail(tables_raw),
                    Structure(acc.tables \o (IF Truthy(table_name) THEN <<table_name>> ELSE <<>>),
                              acc.measures \o TableMeasures(table_name, table.measures),
                              acc.columns \o TableColumns(table_name, table.columns)))

\* what json.loads(path.read_text()) raises on a file that is there: read_text
\* raises UnicodeDecodeError on bytes that are not text in the default
\* encoding, json.loads raises JSONDecodeError on text that is not JSON and
\* RecursionError on JSON nested too deep
ReadJsonRaises(kind) ==
    CASE kind = "undecodable" -> "UnicodeDecodeError"
      [] kind = "invalid_json" -> "JSONDecodeError"
      [] kind = "too_deep" -> "RecursionError"
      [] OTHER -> "None"

\* the try block catches OSError and JSONDecodeError and nothing else
load_model_structure(source) ==
    IF source.kind \in {"missing", "directory", "empty_bundle", "wrong_suffix"}
    THEN Loaded(EmptyStructure)
    ELSE IF ReadJsonRaises(source.kind) = "JSONDecodeError"
    THEN Loaded(EmptyStructure)
    ELSE IF ReadJsonRaises(source.kind) # "None"
    THEN Raised(ReadJsonRaises(source.kind))
    ELSE LET data == source.doc
         IN IF data.kind # "object" THEN Raised("AttributeError")
            ELSE IF ~data.model.truthy THEN LoadTables(<<>>, Structure(<<>>, <<>>, <<>>))
            ELSE IF data.model.kind # "object" THEN Raised("AttributeError")
            ELSE LoadTables(data.model.tables, Structure(<<>>, <<>>, <<>>))

----------------------------------------------------------------------------
(* Session manager and audit trail (mcp_server/orchestration.py).          *)
(* Timestamps are left out of the entries.                                 *)

NoPayload == [source |-> "None", description |-> "None"]

HistoryEntry(user, action, status, payload) ==
    [user |-> user, action |-> action, status |-> status, payload |-> payload]

AuditRecord(session_id, user, action, status) ==
    [session_id |-> session_id, user |-> user, action |-> action, status |-> status]

AuditLog_skipClose(records, session_id, user, action, status) ==
    IF action = "close" THEN records
    ELSE Append(records, [session_id |-> session_id, user |-> user, action |-> action,
                          status |-> status])

\* AuditTrail.log
AuditLog(records, session_id, user, action, status) ==
    Append(records, AuditRecord(session_id, user, action, status))

\* AuditTrail.get_session_records
get_session_records(records, session_id) ==
    SelectSeq(records, LAMBDA r : r.session_id = session_id)

NoSessions == [sid \in {} |-> 0]

\* SessionManager.start_session: the sessions map after the call
start_session(smap, session_id, user) ==
    [sid \in DOMAIN smap \cup {session_id} |->
        IF sid = session_id
        THEN [status |-> "started", recent_payloads |-> <<>>,
              history |-> <<HistoryEntry(user, "init", "started", NoPayload)>>]
        ELSE smap[sid]]

\* SessionManager.process_session: the entry it appends and returns
ProcessEntry(user, action, status, payload) == HistoryEntry(user, action, status, payload)

\* variant: a closed session keeps its status
process_session_keepClosed(smap, session_id, action, user, payload, status) ==
    [smap EXCEPT ![session_id] =
        [status |-> IF @.history[Len(@.history)].action = "close" THEN @.status
                    ELSE IF status # "error" THEN "processing" ELSE "error",
         recent_payloads |-> IF payload # NoPayload THEN Append(@.recent_payloads, payload)
                             ELSE @.recent_payloads,
         history |-> Append(@.history, [user |-> user, action |-> action, status |-> status,
                                        payload |-> payload])]]

\* variant: the history keeps only the latest entry
process_session_latestOnly(smap, session_id, action, user, payload, status) ==
    [smap EXCEPT ![session_id] =
        [status |-> IF status # "error" THEN "processing" ELSE "error",
         recent_payloads |-> IF payload # NoPayload THEN Append(@.recent_payloads, payload)
                             ELSE @.recent_payloads,
         history |-> <<ProcessEntry(user, action, status, payload)>>]]

\* SessionManager.process_session: the sessions map after the call
process_session(smap, session_id, action, user, payload, status) ==
    [smap EXCEPT ![session_id] =
        [status |-> IF status # "error" THEN "processing" ELSE "error",
         recent_payloads |-> IF payload # NoPayload THEN Append(@.recent_payloads, payload)
                             ELSE @.recent_payloads,
         history |-> Append(@.history, ProcessEntry(user, action, status, payload))]]

\* SessionManager.close_session: the sessions map after the call
close_session(smap, session_id, user, status) ==
    [smap EXCEPT ![session_id] =
        [status |-> status,
         recent_payloads |-> @.recent_payloads,
         history |-> Append(@.history, HistoryEntry(user, "close", status, NoPayload))]]

\* SessionManager._require_session: TRUE when it returns the session, FALSE when
\* it raises KeyError("session_not_found")
_require_session_lenient(smap, session_id) == TRUE

_require_session(smap, session_id) == session_id \in DOMAIN smap

\* The context dict of a session is modelled by its recent_payloads list, the
\* one key the manager reads and writes; a context without the key is the
\* empty list, which is what setdefault makes of it.
set_context_restart(smap, session_id, context) ==
    [smap EXCEPT ![session_id] =
        [status |-> "started", recent_payloads |-> context, history |-> @.history]]

\* SessionManager.set_context: the sessions map after the call
set_context(smap, session_id, context) ==
    [smap EXCEPT ![session_id] =
        [status |-> @.status, recent_payloads |-> context, history |-> @.history]]

\* SessionManager.get_context: the value returned
get_context(smap, session_id) == smap[session_id].recent_payloads

\* The outcome of a call of a SessionManager method: the sessions map and the
\* audit records it leaves, and the message of the KeyError it raised, if any
Returned(smap, records) == [sessions |-> smap, records |-> records, raised |-> "None"]

RaisedKeyError(smap, records) ==
    [sessions |-> smap, records |-> records, raised |-> "session_not_found"]

StartCall(smap, records, session_id, user) ==
    Returned(start_session(smap, session_id, user),
             AuditLog(records, session_id, user, "init", "started"))

ProcessCall(smap, records, session_id, action, user, payload, status) ==
    IF ~_require_session(smap, session_id) THEN RaisedKeyError(smap, records)
    ELSE Returned(process_session(smap, session_id, action, user, payload, status),
                  AuditLog(records, session_id, user, action, status))

CloseCall(smap, records, session_id, user, status) ==
    IF ~_require_session(smap, session_id) THEN RaisedKeyError(smap, records)
    ELSE Returned(close_session(smap, session_id, user, status),
                  AuditLog(records, session_id, user, "close", status))

SetContextCall(smap, records, session_id, context) ==
    IF ~_require_session(smap, session_id) THEN RaisedKeyError(smap, records)
    ELSE Returned(set_context(smap, session_id, context), records)

GetContextCall(smap, records, session_id) ==
    IF ~_require_session(smap, session_id) THEN RaisedKeyError(smap, records)
    ELSE Returned(smap, records)

\* The response of an endpoint of api.py: the HTTP status and, for an
\* HTTPException, its detail
HttpResponse(code, detail) == [code |-> code, detail |-> detail]

\* the endpoints /process and /session/close around the manager's outcome;
\* header_id is the X-Session-ID header, "" when it is missing or empty
EndpointResponse(header_id, outcome) ==
    IF header_id = "" THEN HttpResponse(400, "Session ID required")
    ELSE IF outcome.raised # "None" THEN HttpResponse(404, "Session not found")
    ELSE HttpResponse(200, "None")

----------------------------------------------------------------------------
(* Rate limiter: security.rate_limiter                                     *)

\* MCPConfig.RATE_LIMIT and MCPConfig.RATE_PERIOD, at their defaults
RATE_LIMIT == 5

RATE_PERIOD == 10

\* the timestamps of a list that are less than RATE_PERIOD old
StillRecent_inclusive(stamps, now) == SelectSeq(stamps, LAMBDA t : now - t <= RATE_PERIOD)

StillRecent(stamps, now) == SelectSeq(stamps, LAMBDA t : now - t < RATE_PERIOD)

\* rate_limiter for a request of ip at time now: the store it leaves and the
\* status it answers with, 429 for the HTTPException and 200 for a return
rate_limiter(store, ip, now) ==
    LET pruned == [store EXCEPT ![ip] = StillRecent(@, now)]
    IN IF Len(pruned[ip]) >= RATE_LIMIT
       THEN [store |-> pruned, code |-> 429, detail |-> "Rate limit exceeded"]
       ELSE [store |-> [pruned EXCEPT ![ip] = Append(@, now)], code |-> 200,
             detail |-> "None"]

----------------------------------------------------------------------------
(* Text chunking for ingestion: rag.ingest._chunk_text                     *)

Min(a, b) == IF a <= b THEN a ELSE b

\* end = min(length, start + chunk_size)
ChunkEnd(length, start, chunk_size) == Min(length, start + chunk_size)

\* " ".join(words[start:end]), as the list of the words joined
ChunkOf(words, start, end) == SubSeq(words, start + 1, end)

\* start = max(0, end - overlap)
NextStart(end, overlap) == Max(0, end - overlap)

----------------------------------------------------------------------------
(* Pipeline orchestrator: run_source                                       *)

PIPELINE_STEPS ==
    << <<"ingest", "Collected PBIP project structure">>,
       <<"classify", "Detected report domain and intent">>,
       <<"standards", "Checked naming and formatting standards">>,
       <<"report", "Generated summary report">> >>

StepResult(action, status, description, validation) ==
    [action |-> action, status |-> status, description |-> description,
     validation |-> validation]

----------------------------------------------------------------------------
(* Naming transformer runs: a name is drawn, one transform is applied to   *)
(* it, and the transform is applied again to its own output.               *)

MaxNameLen == 4

\* one character of every class the transforms and the patterns distinguish:
\* lower case, upper case, digit, underscore, space, other, line break
NameChars == {"a", "B", "1", "_", " ", "-", "\n"}

BoundedNames == UNION {[1..k -> NameChars] : k \in 0..MaxNameLen}

Total_Sales == <<"T", "o", "t", "a", "l", "_", "S", "a", "l", "e", "s">>
TotalSales == <<"T", "o", "t", "a", "l", "S", "a", "l", "e", "s">>
total_sales == <<"t", "o", "t", "a", "l", "_", "s", "a", "l", "e", "s">>
customer_id == <<"c", "u", "s", "t", "o", "m", "e", "r", " ", "i", "d">>
Customer_Id == <<"C", "u", "s", "t", "o", "m", "e", "r", " ", "I", "d">>

ExampleNames == {Total_Sales, TotalSales, total_sales, customer_id, Customer_Id}

NameInputs == BoundedNames \cup ExampleNames

NameIdle == npc = "idle" /\ name = <<>> /\ snake = <<>> /\ pascal = <<>>

NameInit ==
    /\ npc = "input"
    /\ name \in NameInputs
    /\ snake = None
    /\ pascal = None

\* snake = to_snake_case(name)
NameSnake ==
    /\ npc = "input"
    /\ snake' = to_snake_case(name)
    /\ npc' = "snake"
    /\ UNCHANGED <<name, pascal>>
    /\ UNCHANGED <<valVars, runVars, pureVars>>

\* pascal = to_pascal_case_with_spaces(name)
NamePascal ==
    /\ npc = "input"
    /\ pascal' = to_pascal_case_with_spaces(name)
    /\ npc' = "pascal"
    /\ UNCHANGED <<name, snake>>
    /\ UNCHANGED <<valVars, runVars, pureVars>>

\* the output is fed back: name holds f(x) and snake holds f(f(x))
NameSnakeAgain ==
    /\ npc = "snake"
    /\ name' = snake
    /\ snake' = to_snake_case(snake)
    /\ npc' = "snake_again"
    /\ UNCHANGED pascal
    /\ UNCHANGED <<valVars, runVars, pureVars>>

NamePascalAgain ==
    /\ npc = "pascal"
    /\ name' = pascal
    /\ pascal' = to_pascal_case_with_spaces(pascal)
    /\ npc' = "pascal_again"
    /\ UNCHANGED snake
    /\ UNCHANGED <<valVars, runVars, pureVars>>

NameNext == NameSnake \/ NamePascal \/ NameSnakeAgain \/ NamePascalAgain

----------------------------------------------------------------------------
(* validate_standards runs: a catalog is loaded at import, a structure is  *)
(* passed in, and the two loops run one iteration per step.                *)

MaxMeasures == 2
MaxColumns == 1

Sales == <<"S", "a", "l", "e", "s">>
Sales_KPIs == <<"S", "a", "l", "e", "s", " ", "K", "P", "I", "s">>
Finance == <<"F", "i", "n", "a", "n", "c", "e">>
Misc == <<"M", "i", "s", "c">>
Fmt == <<"0", ".", "0">>
E_div == <<"[", "A", "]", "/", "[", "B", "]">>
E_divide == <<"D", "I", "V", "I", "D", "E", "(", "[", "A", "]", ",", "[", "B", "]", ")">>
E_count_all == <<" ", "C", "O", "U", "N", "T", "(", "x", ")", "/", "A", "L", "L", "(", "T", ")">>

\* measures: conforming; failing every check; without a table; with a folder
\* outside the allowed set, with and without a table; without a folder only
MeasureInputs ==
    { Measure(Sales, total_sales, Sales_KPIs, Fmt, E_divide),
      Measure(Sales, TotalSales, None, None, E_div),
      Measure(None, Total_Sales, None, None, None),
      Measure(Sales, Total_Sales, Misc, Fmt, None),
      Measure(None, total_sales, Misc, Fmt, E_count_all),
      Measure(Sales, total_sales, <<>>, Fmt, <<>>) }

\* columns: conforming without and with a folder; misnamed with a folder that
\* only some catalogs allow; misnamed without a table and with a foreign folder
ColumnInputs ==
    { Column(Sales, Customer_Id, None),
      Column(Sales, TotalSales, Sales_KPIs),
      Column(Sales, customer_id, Finance),
      Column(None, customer_id, Misc) }

SeqsUpTo(set, n) == UNION {[1..k -> set] : k \in 0..n}

StructureInputs ==
    {EmptyStructure} \cup
    {Structure(<<Sales>>, ms, cs) : ms \in SeqsUpTo(MeasureInputs, MaxMeasures),
                                     cs \in SeqsUpTo(ColumnInputs, MaxColumns)}

ConfigInputs ==
    { LegacyConfig("snake_case", "PascalCase", <<>>, <<>>, <<>>),
      LegacyConfig("snake_case with semantic prefix", "PascalCase with spaces for user-facing",
                   <<Sales_KPIs>>, <<<<S_division, "Always use DIVIDE">>>>, <<>>),
      LegacyConfig("snake_case", "PascalCase", <<Sales_KPIs, Finance>>, <<>>, <<>>) }

\* load_catalog(): no file at all, or a catalog built from a legacy configuration
\* a catalog file written by hand: the folder rule lists the allowed folders
\* and has no auto_fix
HandCatalog ==
    [rule_count |-> 1,
     rules |-> <<Rule(ID_DISPLAY_FOLDER,
                      Desc("Measures and columns should reside in the curated display folders.",
                           "", <<>>),
                      "None", <<Sales_KPIs, Finance>>, "None", "None", None)>>]

CatalogInputs == {EmptyCatalog, HandCatalog} \cup {build_catalog(cfg) : cfg \in ConfigInputs}

\* the module is imported with one of the catalogs loaded
CatalogLoaded(cats) == catalog \in cats /\ first_folder \in FirstFolderChoices(catalog)

NoResult == ValidationResult("none", <<>>, <<>>)

ValIdle ==
    /\ vpc = "idle"
    /\ structure = EmptyStructure
    /\ mi = 0
    /\ ci = 0
    /\ issues = <<>>
    /\ fixes = <<>>
    /\ result = NoResult

ValInit ==
    /\ vpc = "call"
    /\ CatalogLoaded(CatalogInputs)
    /\ structure \in StructureInputs
    /\ mi = 0
    /\ ci = 0
    /\ issues = <<>>
    /\ fixes = <<>>
    /\ result = NoResult

\* if not structure: return the skipped result
ValSkip ==
    /\ vpc = "call"
    /\ ~structure.parsed
    /\ result' = SkippedResult
    /\ vpc' = "done"
    /\ UNCHANGED <<catalog, first_folder, structure, mi, ci, issues, fixes>>
    /\ UNCHANGED <<nameVars, runVars, pureVars>>

\* issues = [], fixes = []
ValBegin ==
    /\ vpc = "call"
    /\ structure.parsed
    /\ issues' = <<>>
    /\ fixes' = <<>>
    /\ mi' = 1
    /\ vpc' = "measures"
    /\ UNCHANGED <<catalog, first_folder, structure, ci, result>>
    /\ UNCHANGED <<nameVars, runVars, pureVars>>

\* one iteration of: for measure in structure.get("measures", [])
ValMeasure ==
    /\ vpc = "measures"
    /\ mi <= Len(structure.measures)
    /\ LET out == MeasureChecks(catalog, structure.measures[mi])
       IN /\ issues' = issues \o out.issues
          /\ fixes' = fixes \o out.fixes
    /\ mi' = mi + 1
    /\ UNCHANGED <<vpc, catalog, first_folder, structure, ci, result>>
    /\ UNCHANGED <<nameVars, runVars, pureVars>>

\* the measure loop is exhausted
ValMeasuresDone ==
    /\ vpc = "measures"
    /\ mi > Len(structure.measures)
    /\ ci' = 1
    /\ vpc' = "columns"
    /\ UNCHANGED <<catalog, first_folder, structure, mi, issues, fixes, result>>
    /\ UNCHANGED <<nameVars, runVars, pureVars>>

\* one iteration of: for column in structure.get("columns", [])
ValColumn ==
    /\ vpc = "columns"
    /\ ci <= Len(structure.columns)
    /\ LET out == ColumnChecks(catalog, structure.columns[ci])
       IN /\ issues' = issues \o out.issues
          /\ fixes' = fixes \o out.fixes
    /\ ci' = ci + 1
    /\ UNCHANGED <<vpc, catalog, first_folder, structure, mi, result>>
    /\ UNCHANGED <<nameVars, runVars, pureVars>>

\* status resolution and return
ValReturn ==
    /\ vpc = "columns"
    /\ ci > Len(structure.columns)
    /\ result' = ValidationResult(StatusOf(issues), issues, fixes)
    /\ vpc' = "done"
    /\ UNCHANGED <<catalog, first_folder, structure, mi, ci, issues, fixes>>
    /\ UNCHANGED <<nameVars, runVars, pureVars>>

ValNext == ValSkip \/ ValBegin \/ ValMeasure \/ ValMeasuresDone \/ ValColumn \/ ValReturn

----------------------------------------------------------------------------
(* run_source runs: one artifact is loaded, classified and driven through  *)
(* the pipeline steps under a fresh session manager and audit trail.  The  *)
(* files the run writes and the classification it computes are left out.   *)

SID == "s1"

PILOT == "pilot_cli"

T_measures == <<JMeasure(TotalSales, None, None, None, E_div)>>
T_columns == <<JColumn(customer_id, None, None)>>

DocInputs ==
    { Other(TRUE), Other(FALSE),
      JDoc(Absent),
      JDoc(Other(TRUE)),
      JDoc(JModel(<<>>)),
      JDoc(JModel(<<Other(TRUE)>>)),
      JDoc(JModel(<<JTable(Sales, None, <<Other(TRUE)>>, <<>>)>>)),
      JDoc(JModel(<<JTable(Sales, None, T_measures, <<Other(FALSE)>>)>>)),
      JDoc(JModel(<<JTable(Sales, None, T_measures, T_columns)>>)),
      JDoc(JModel(<<JTable(Sales, None, T_measures, T_columns), Other(TRUE)>>)),
      JDoc(JModel(<<JTable(None, None,
                           <<JMeasure(None, None, None, None, E_div),
                             JMeasure(None, Total_Sales, None, Fmt, None)>>,
                           <<JColumn(<<>>, None, Misc)>>)>>)),
      JDoc(JModel(<<JTable(None, Sales,
                           <<JMeasure(total_sales, None, Sales_KPIs, Fmt, E_divide)>>,
                           <<JColumn(Customer_Id, None, None)>>)>>)) }

SourceInputs ==
    {Source(k, Absent) : k \in {"missing", "directory", "empty_bundle", "wrong_suffix",
                                "undecodable", "invalid_json", "too_deep"}}
    \cup {Source("json", d) : d \in DocInputs}

\* the metadata file next to the source: none, a JSON object, a JSON value that is
\* not an object, bytes that are not text, text that is not JSON, or JSON nested
\* too deep
MetadataInputs == {"missing", "object", "other", "undecodable", "invalid_json", "too_deep"}

ArtifactInputs == [source : SourceInputs, metadata : MetadataInputs]

NoSummary == [steps |-> <<>>, standards |-> NoResult, standards_issue_count |-> 0]

RunIdle ==
    /\ rpc = "idle"
    /\ artifact = [source |-> Source("missing", Absent), metadata |-> "missing"]
    /\ loaded = LoadOutcome("None", "None", EmptyStructure)
    /\ sessions = NoSessions
    /\ audit = <<>>
    /\ summary = NoSummary

RunInit ==
    /\ rpc = "call"
    /\ artifact \in ArtifactInputs
    /\ loaded = LoadOutcome("None", "None", EmptyStructure)
    /\ sessions = NoSessions
    /\ audit = <<>>
    /\ summary = NoSummary

\* load_metadata_for_source, load_model_structure and classify_source: the first
\* exception of the three calls propagates out of run_source;
\* load_metadata_for_source reads its file with no try block
RunLoad ==
    /\ rpc = "call"
    /\ LET structure_result == load_model_structure(artifact.source)
           outcome ==
               IF ReadJsonRaises(artifact.metadata) # "None"
               THEN LoadOutcome(ReadJsonRaises(artifact.metadata), "load_metadata_for_source",
                                EmptyStructure)
               ELSE IF structure_result.raised # "None"
               THEN LoadOutcome(structure_result.raised, "load_model_structure", EmptyStructure)
               ELSE IF artifact.metadata = "other"
               THEN LoadOutcome("AttributeError", "classify_source", EmptyStructure)
               ELSE LoadOutcome("None", "None", structure_result.structure)
       IN /\ loaded' = outcome
          /\ rpc' = IF outcome.raised = "None" THEN "loaded" ELSE "raised"
    /\ UNCHANGED <<artifact, sessions, audit, summary>>
    /\ UNCHANGED <<nameVars, valVars, pureVars>>

\* AuditTrail(), SessionManager(audit), start_session and the empty summary
RunStart ==
    /\ rpc = "loaded"
    /\ sessions' = start_session(NoSessions, SID, PILOT)
    /\ audit' = AuditLog(<<>>, SID, PILOT, "init", "started")
    /\ summary' = NoSummary
    /\ rpc' = "steps"
    /\ UNCHANGED <<artifact, loaded>>
    /\ UNCHANGED <<nameVars, valVars, pureVars>>

\* one iteration of: for action, description in PIPELINE_STEPS
RunStep ==
    /\ rpc = "steps"
    /\ Len(summary.steps) < Len(PIPELINE_STEPS)
    /\ LET step == PIPELINE_STEPS[Len(summary.steps) + 1]
           action == step[1]
           description == step[2]
           payload == [source |-> "source.name", description |-> description]
           entry == ProcessEntry(PILOT, action, "ok", payload)
           validation == validate_standards(catalog, loaded.structure)
       IN /\ sessions' = process_session(sessions, SID, action, PILOT, payload, "ok")
          /\ audit' = AuditLog(audit, SID, PILOT, action, "ok")
          /\ summary' =
                [steps |-> Append(summary.steps,
                                  StepResult(action, entry.status, description,
                                             IF action = "standards" THEN validation
                                             ELSE NoResult)),
                 standards |-> IF action = "standards" THEN validation
                               ELSE summary.standards,
                 standards_issue_count |-> IF action = "standards" THEN validation.issue_count
                                           ELSE summary.standards_issue_count]
    /\ UNCHANGED <<rpc, artifact, loaded>>
    /\ UNCHANGED <<nameVars, valVars, pureVars>>

\* close_session after the loop, then the summary is returned
RunClose ==
    /\ rpc = "steps"
    /\ Len(summary.steps) = Len(PIPELINE_STEPS)
    /\ sessions' = close_session(sessions, SID, PILOT, "closed")
    /\ audit' = AuditLog(audit, SID, PILOT, "close", "closed")
    /\ rpc' = "done"
    /\ UNCHANGED <<artifact, loaded, summary>>
    /\ UNCHANGED <<nameVars, valVars, pureVars>>

RunNext == RunLoad \/ RunStart \/ RunStep \/ RunClose

----------------------------------------------------------------------------
(* Runs of detect_dax_issues: one expression, scanned under each of the    *)
(* catalogs the module can have loaded at import.  An expression is a      *)
(* concatenation of a few tokens or a few lines joined by newlines.        *)

MaxDaxTokens == 4
MaxDaxLines == 4

\* division and comments
DivisionTokens == {Chars(t) : t \in {"/", "Divide(", "/*", "*/", "--", "\n", "x"}}

\* calls of ALL, COUNT and LOOKUPVALUE
CallTokens ==
    {Chars(t) : t \in {"All(T)", "all (", "[", ")", "T", "Count(", "Lookupvalue("}}

\* whole lines: code, blank, comment only, with and without VAR
LineInputs ==
    {Chars(t) : t \in {"x", " ", "--c", "Var y", "Var", "Lookupvalue(All(T))/Count(x)"}}

RECURSIVE Concat(_)
Concat(parts) == IF parts = <<>> THEN <<>> ELSE Head(parts) \o Concat(Tail(parts))

ExpressionInputs ==
    {None, E_div, E_divide}
    \cup {Concat(ts) : ts \in SeqsUpTo(DivisionTokens, MaxDaxTokens)}
    \cup {Concat(ts) : ts \in SeqsUpTo(CallTokens, MaxDaxTokens)}
    \cup {Join(ls, <<"\n">>) : ls \in SeqsUpTo(LineInputs, MaxDaxLines)}

\* a legacy configuration that has a division guideline and the ALL anti-pattern,
\* and none of the other rules the scanner refers to
DaxConfig ==
    LegacyConfig("snake_case", "PascalCase", <<>>,
                 <<<<S_division, "Always use DIVIDE">>>>, <<S_all_table>>)

\* RULE_LOOKUP as built at import from either catalog
DaxCatalogs == <<EmptyCatalog, build_catalog(DaxConfig)>>

DaxIdle == dpc = "idle" /\ expr = <<>> /\ findings = <<>>

DaxInit == dpc = "call" /\ expr \in ExpressionInputs /\ findings = <<>>

\* detect_dax_issues(expression), under each catalog
DaxScan ==
    /\ dpc = "call"
    /\ dpc' = "done"
    /\ findings' = [k \in 1..Len(DaxCatalogs) |-> detect_dax_issues(DaxCatalogs[k], expr)]
    /\ UNCHANGED expr
    /\ UNCHANGED <<nameVars, valVars, runVars, tmdlVars, classVars, buildVars, syncVars, sessVars, rateVars, chunkVars>>

DaxNext == DaxScan

----------------------------------------------------------------------------
(* Runs of generate_tmdl_corrections over a short list of fixes            *)

MaxFixes == 3

\* fixes as the validator builds them, and fixes that lack a field, carry
\* characters to escape, a list as suggestion or an action without support
TmdlFixInputs ==
    { Fix("measure", Sales, TotalSales, Str(total_sales), "None", ID_MEASURE_NAMING),
      Fix("measure", Sales, Chars("a]b"), Str(Chars("K'P")), "set_display_folder",
          ID_DISPLAY_FOLDER),
      Fix("column", None, Customer_Id, Str(Customer_Id), "rename", ID_COLUMN_NAMING),
      Fix("measure", Sales, total_sales, None, "set_format_string", ID_FORMAT_STRING),
      Fix("measure", Chars("O'Neil"), total_sales, Str(Chars("0.0\"%\"")),
          "set_format_string", ID_FORMAT_STRING),
      Fix("column", Sales, Customer_Id, Str(Chars("x")), "hide", NoRuleId),
      Fix("column", Sales, <<>>, Str(Customer_Id), "rename", ID_COLUMN_NAMING),
      Fix("column", Sales, customer_id, List(<<Sales_KPIs, Finance>>), "rename",
          ID_COLUMN_NAMING),
      Fix("column", Sales, customer_id, List(<<Chars("O'Neil"), Chars("a\\b")>>), "hide",
          NoRuleId),
      Fix("measure", Sales, total_sales, List(<<Chars("a'b\"c")>>), "set_format_string",
          ID_FORMAT_STRING) }

TmdlIdle == tpc = "idle" /\ tmdl_fixes = <<>> /\ patch = <<>>

TmdlInit == tpc = "call" /\ tmdl_fixes \in SeqsUpTo(TmdlFixInputs, MaxFixes) /\ patch = <<>>

\* generate_tmdl_corrections(fixes)
TmdlGenerate ==
    /\ tpc = "call"
    /\ tpc' = "done"
    /\ patch' = generate_tmdl_corrections(tmdl_fixes)
    /\ UNCHANGED tmdl_fixes
    /\ UNCHANGED <<nameVars, valVars, runVars, daxVars, classVars, buildVars, syncVars, sessVars, rateVars, chunkVars>>

TmdlNext == TmdlGenerate

----------------------------------------------------------------------------
(* Runs of classify_source: the metadata of the artifact, the structure,   *)
(* the stem of the source path and the profile store are drawn, then the   *)
(* counter, the primary domain, the profile metadata and the result        *)
(* follow.                                                                 *)

MaxTags == 2

TagInputs == {Chars("sales"), Chars("lead"), Chars("hr")}

\* what load_metadata_for_source returns without a metadata file, dicts with a
\* list of tags, and dicts whose tags are a string or absent
ClassifyMetadataInputs ==
    { [source |-> Str(Chars("model.json")), metadata |-> Str(Chars("missing"))],
      [tags |-> Str(Chars("finance")), intent |-> Str(Chars("audit"))],
      [domain |-> Str(Chars("Cash")), purpose |-> Str(Chars("planning"))] }
    \cup { [tags |-> List(ts), owner |-> Str(Chars("bi"))] : ts \in SeqsUpTo(TagInputs, MaxTags) }

ClassifyStructureInputs ==
    { EmptyStructure,
      Structure(<<Chars("Finance")>>, <<>>, <<>>),
      Structure(<<Chars("Ledger"), Chars("Stock")>>, <<>>,
                <<Column(Chars("Ledger"), Chars("Revenue"), None)>>),
      Structure(<<Sales>>, <<Measure(Sales, total_sales, None, None, None)>>, <<>>) }

StemInputs == {Chars("report"), Chars("Sales_Q1"), Chars("cash")}

ProfileStoreInputs ==
    { ProfileStore(FALSE, EmptyDict),
      ProfileStore(TRUE,
          (Chars("sales") :> [tags |-> List(<<Chars("sales"), Chars("kpi")>>),
                              owner |-> Str(Chars("profile")), tier |-> Str(Chars("gold"))])
          @@ (Chars("default") :> [tags |-> List(<<Chars("core")>>),
                                   owner |-> Str(Chars("default"))])),
      ProfileStore(TRUE,
          (Chars("finance") :> [tags |-> Str(Chars("fin")), tier |-> Str(Chars("silver"))])) }

ClassifyInputs ==
    [profiles : ProfileStoreInputs, stem : StemInputs, metadata : ClassifyMetadataInputs,
     structure : ClassifyStructureInputs]

NoPrimary == [domain |-> "none", ranked |-> <<>>]

NoClassification ==
    [domain |-> "none", intent |-> None, metadata |-> EmptyDict, domain_candidates |-> <<>>,
     profile_loaded |-> FALSE]

ClassIdle ==
    /\ cpc = "idle"
    /\ cargs = [profiles |-> ProfileStore(FALSE, EmptyDict), stem |-> <<>>,
                metadata |-> EmptyDict, structure |-> EmptyStructure]
    /\ scores = <<>>
    /\ resolved = NoPrimary
    /\ profile_md = EmptyDict
    /\ classification = NoClassification

ClassInit ==
    /\ cpc = "call"
    /\ cargs \in ClassifyInputs
    /\ scores = <<>>
    /\ resolved = NoPrimary
    /\ profile_md = EmptyDict
    /\ classification = NoClassification

\* determine_primary_domain up to the scoring of the name hint
ClassifyScore ==
    /\ cpc = "call"
    /\ cpc' = "scored"
    /\ scores' = DomainCounter(cargs.metadata, cargs.structure, cargs.stem)
    /\ UNCHANGED <<cargs, resolved, profile_md, classification>>
    /\ UNCHANGED <<nameVars, valVars, runVars, daxVars, tmdlVars, buildVars, syncVars, sessVars, rateVars, chunkVars>>

\* determine_primary_domain from the test of the counter to its return
ClassifyDomain ==
    /\ cpc = "scored"
    /\ cpc' = "ranked"
    /\ resolved' = determine_primary_domain(cargs.metadata, cargs.structure, cargs.stem)
    /\ UNCHANGED <<cargs, scores, profile_md, classification>>
    /\ UNCHANGED <<nameVars, valVars, runVars, daxVars, tmdlVars, buildVars, syncVars, sessVars, rateVars, chunkVars>>

\* the choice of the profile key and load_profile_metadata
ClassifyProfile ==
    /\ cpc = "ranked"
    /\ cpc' = "profiled"
    /\ profile_md' = load_profile_metadata(cargs.profiles, ProfileKey(resolved))
    /\ UNCHANGED <<cargs, scores, resolved, classification>>
    /\ UNCHANGED <<nameVars, valVars, runVars, daxVars, tmdlVars, buildVars, syncVars, sessVars, rateVars, chunkVars>>

\* infer_intent, enrich_metadata and the returned dict
ClassifyReturn ==
    /\ cpc = "profiled"
    /\ cpc' = "done"
    /\ classification' =
          classify_source(cargs.profiles, cargs.stem, cargs.metadata, cargs.structure)
    /\ UNCHANGED <<cargs, scores, resolved, profile_md>>
    /\ UNCHANGED <<nameVars, valVars, runVars, daxVars, tmdlVars, buildVars, syncVars, sessVars, rateVars, chunkVars>>

ClassNext == ClassifyScore \/ ClassifyDomain \/ ClassifyProfile \/ ClassifyReturn

----------------------------------------------------------------------------
(* Calls of build_catalog: one argument, passed to every call, and the     *)
(* legacy file, which may be written or removed at any time.               *)

MaxBuilds == 2

\* coding keys that differ in case and punctuation only
CodingConfig ==
    LegacyConfig("snake_case", "PascalCase", <<>>,
                 <<<<Chars("Use VAR"), "Declare variables">>, <<Chars("use_var"), "Reuse variables">>>>,
                 <<>>)

\* performance keys that differ in case and punctuation only
PerformanceConfig ==
    StandardsConfig("snake_case", "PascalCase", <<>>, <<>>,
                    <<<<Chars("iterators"), "Avoid nested iterators">>,
                      <<Chars("Iterators!"), "Prefer SUMX over FILTER">>>>,
                    <<>>, <<>>, None)

\* anti-patterns whose slugs share their first forty characters
AntiPatternConfig ==
    LegacyConfig("snake_case", "PascalCase", <<>>, <<>>,
                 <<Chars("Avoid nested CALCULATE inside iterators over large fact tables"),
                   Chars("Avoid nested CALCULATE inside iterators over large dimension tables")>>)

\* every section present, no two keys alike
FullConfig ==
    StandardsConfig("snake_case with semantic prefix", "PascalCase with spaces for user-facing",
                    <<Sales_KPIs, Finance>>,
                    <<<<S_division, "Always use DIVIDE">>, <<Chars("variables"), "Use VAR">>>>,
                    <<<<Chars("iterators"), "Avoid nested iterators">>,
                      <<Chars("relationships"), "Avoid bidirectional filters">>>>,
                    <<S_all_table, S_counting>>,
                    <<<<Chars("indent"), "Four spaces">>>>,
                    List(<<Chars("Purpose"), Chars("Owner")>>))

BuildConfigInputs ==
    {EmptyConfig, DaxConfig, FullConfig, CodingConfig, PerformanceConfig, AntiPatternConfig}

LegacyFileInputs ==
    {NoLegacyFile, LegacyFile(TRUE, EmptyConfig), LegacyFile(TRUE, DaxConfig),
     LegacyFile(TRUE, CodingConfig)}

BuildIdle == config_arg = EmptyConfig /\ legacy_file = NoLegacyFile /\ built = <<>>

BuildInit ==
    /\ config_arg \in BuildConfigInputs
    /\ legacy_file \in LegacyFileInputs
    /\ built = <<>>

\* build_catalog(config_arg): the returned catalog is kept
CatalogBuild ==
    /\ Len(built) < MaxBuilds
    /\ built' = Append(built, build_catalog_on(legacy_file, config_arg))
    /\ UNCHANGED <<config_arg, legacy_file>>
    /\ UNCHANGED <<nameVars, valVars, runVars, daxVars, tmdlVars, classVars, syncVars, sessVars, rateVars, chunkVars>>

\* the legacy file is written, replaced or removed outside the builder
LegacyFileWrite ==
    /\ legacy_file' \in LegacyFileInputs \ {legacy_file}
    /\ UNCHANGED <<config_arg, built>>
    /\ UNCHANGED <<nameVars, valVars, runVars, daxVars, tmdlVars, classVars, syncVars, sessVars, rateVars, chunkVars>>

BuildNext == CatalogBuild \/ LegacyFileWrite

----------------------------------------------------------------------------
(* Runs of the standards sync: the legacy file and the catalog file on     *)
(* disk, the clock the version is read from, and runs of sync.main with    *)
(* and without --check and of load_catalog.  The legacy file is written    *)
(* and the catalog file removed from outside at any time.                  *)

MaxClock == 1

CatalogFileInputs ==
    {NoCatalogFile, CatalogFile(TRUE, DefaultCatalog),
     CatalogFile(TRUE, build_catalog_at(LegacyFile(TRUE, DaxConfig), EmptyConfig, 0))}

\* one coding key and its guidance
CodingKeyConfig(key) ==
    LegacyConfig("snake_case", "PascalCase", <<>>, <<<<key, "Declare variables">>>>, <<>>)

\* one performance key and its guidance
PerformanceKeyConfig(key) ==
    StandardsConfig("snake_case", "PascalCase", <<>>, <<>>,
                    <<<<key, "Avoid nested iterators">>>>, <<>>, <<>>, None)

\* a documentation block and nothing else
DocBlockConfig(required) ==
    StandardsConfig("snake_case", "PascalCase", <<>>, <<>>, <<>>, <<>>, <<>>, List(required))

\* a DAX_Templates section that names its source and nothing else
SourceConfig ==
    [LegacyConfig("snake_case", "PascalCase", <<>>, <<>>, <<>>)
     EXCEPT !.dax_source = "docs/dax_standards.md"]

\* the legacy files of the sync runs: no file, the empty dict, a DAX_Templates
\* section of naming, coding and anti-patterns, and files that differ
\* from one another only in how a key is written (the slug, and so the rule
\* id, is the same), in the required fields of the documentation block, or in
\* the source a section names
SyncLegacyInputs ==
    {NoLegacyFile, LegacyFile(TRUE, EmptyConfig), LegacyFile(TRUE, DaxConfig)} \cup
    {LegacyFile(TRUE, cfg) :
        cfg \in {CodingKeyConfig(Chars("Use VAR")), CodingKeyConfig(Chars("use_var")),
                 PerformanceKeyConfig(Chars("iterators")), PerformanceKeyConfig(Chars("Iterators")),
                 DocBlockConfig(<<Chars("Purpose"), Chars("Owner")>>),
                 DocBlockConfig(<<Chars("Purpose")>>),
                 SourceConfig}}

NoSyncResult == SyncResult("none", "None", 0)

SyncIdle ==
    /\ sync_legacy = NoLegacyFile
    /\ catalog_file = NoCatalogFile
    /\ clock = 0
    /\ sync_result = NoSyncResult
    /\ fetched = DefaultCatalog
    /\ synced = FALSE

SyncInit ==
    /\ sync_legacy \in SyncLegacyInputs
    /\ catalog_file \in CatalogFileInputs
    /\ clock = 0
    /\ sync_result = NoSyncResult
    /\ fetched = DefaultCatalog
    /\ synced = FALSE

\* python -m mcp_server.standards.sync --check
SyncCheck ==
    \E run \in {main(TRUE, catalog_file, sync_legacy, clock)} :
       /\ sync_result' = run.result
       /\ catalog_file' = run.file
       /\ UNCHANGED <<sync_legacy, clock, fetched, synced>>
       /\ UNCHANGED <<nameVars, valVars, runVars, daxVars, tmdlVars, classVars, buildVars, sessVars, rateVars, chunkVars>>

\* python -m mcp_server.standards.sync
SyncRun ==
    \E run \in {main(FALSE, catalog_file, sync_legacy, clock)} :
       /\ sync_result' = run.result
       /\ catalog_file' = run.file
       /\ synced' = TRUE
       /\ UNCHANGED <<sync_legacy, clock, fetched>>
       /\ UNCHANGED <<nameVars, valVars, runVars, daxVars, tmdlVars, classVars, buildVars, sessVars, rateVars, chunkVars>>

\* load_catalog()
SyncLoad ==
    /\ fetched' = load_catalog(catalog_file, sync_legacy, clock)
    /\ UNCHANGED <<sync_legacy, catalog_file, clock, sync_result, synced>>
    /\ UNCHANGED <<nameVars, valVars, runVars, daxVars, tmdlVars, classVars, buildVars, sessVars, rateVars, chunkVars>>

\* the legacy file is written, replaced or removed
SyncLegacyWrite ==
    /\ sync_legacy' \in SyncLegacyInputs \ {sync_legacy}
    /\ synced' = FALSE
    /\ UNCHANGED <<catalog_file, clock, sync_result, fetched>>
    /\ UNCHANGED <<nameVars, valVars, runVars, daxVars, tmdlVars, classVars, buildVars, sessVars, rateVars, chunkVars>>

\* the catalog file is removed
SyncCatalogRemove ==
    /\ catalog_file.exists
    /\ catalog_file' = NoCatalogFile
    /\ synced' = FALSE
    /\ UNCHANGED <<sync_legacy, clock, sync_result, fetched>>
    /\ UNCHANGED <<nameVars, valVars, runVars, daxVars, tmdlVars, classVars, buildVars, sessVars, rateVars, chunkVars>>

\* time passes
SyncTick ==
    /\ clock < MaxClock
    /\ clock' = clock + 1
    /\ UNCHANGED <<sync_legacy, catalog_file, sync_result, fetched, synced>>
    /\ UNCHANGED <<nameVars, valVars, runVars, daxVars, tmdlVars, classVars, buildVars, sessVars, rateVars, chunkVars>>

SyncNext ==
    SyncCheck \/ SyncRun \/ SyncLoad \/ SyncLegacyWrite \/ SyncCatalogRemove \/ SyncTick

----------------------------------------------------------------------------
(* A session manager with its audit trail, called directly and through the *)
(* endpoints /process and /session/close.  Session ids are issued fresh,   *)
(* as uuid4 does; calls are made with issued ids and with an id never      *)
(* issued.  An endpoint is a coroutine: it checks the X-Session-ID header, *)
(* awaits the body of the request, and calls the manager when the body has *)
(* arrived; other calls run while it waits.  pending holds the requests    *)
(* that wait for their body.                                               *)

MaxAudit == 3

MaxPending == 1

\* the ids uuid4 returns, in the order of the calls
IssuedIds == <<"s1", "s2">>

\* an id uuid4 never returns
UnknownIds == {"s9"}

MaxSessions == Len(IssuedIds)

\* ids a caller may present
CallerIds == {IssuedIds[k] : k \in 1..Len(IssuedIds)} \cup UnknownIds

\* the X-Session-ID header of the requests made: the first id issued, an id
\* never issued, and "" for a request without the header
HeaderIds == {IssuedIds[1]} \cup UnknownIds \cup {""}

\* the ids get_context and set_context are called with
ContextIds == {IssuedIds[1]} \cup UnknownIds

SessionUsers == {"system"}

\* (action, user, payload, status) of the process_session calls made
ProcessInputs ==
    {<<"validate", "alice", [source |-> "pilot", description |-> "step"], "ok">>,
     <<"process", "system", NoPayload, "error">>}

\* (user, status) of the close_session calls made
CloseInputs == {<<"alice", "failed">>}

ContextInputs == {<<[source |-> "pilot", description |-> "step"]>>}

\* what the last step was, its status argument ("None" when it has none), and
\* how it ended
Reply(op, session_id, status, raised, http) ==
    [op |-> op, session_id |-> session_id, status |-> status, raised |-> raised,
     http |-> http]

NoHttp == HttpResponse(0, "None")

NoReply == Reply("none", "", "None", "None", NoHttp)

\* a request of an endpoint that passed the header check and waits for its
\* body; two requests with the same endpoint and header are held as one
PendingRequest(op, header_id) == [op |-> op, header_id |-> header_id]

SessIdle ==
    /\ smgr = NoSessions
    /\ trail = <<>>
    /\ issued = 0
    /\ reply = NoReply
    /\ pending = {}

SessInit == SessIdle

\* the number of history entries of all sessions
RECURSIVE HistoryTotal(_, _)
HistoryTotal(smap, ids) ==
    IF ids = {} THEN 0
    ELSE LET sid == CHOOSE x \in ids : TRUE
         IN Len(smap[sid].history) + HistoryTotal(smap, ids \ {sid})

\* the run stops appending at MaxAudit audit records or history entries
Room == Len(trail) < MaxAudit /\ HistoryTotal(smgr, DOMAIN smgr) < MaxAudit

\* the state a manager call leaves
SessAfter(op, session_id, status, outcome, http) ==
    /\ smgr' = outcome.sessions
    /\ trail' = outcome.records
    /\ reply' = Reply(op, session_id, status, outcome.raised, http)

SessStart ==
    \E user \in SessionUsers :
        /\ issued < MaxSessions
        /\ Room
        /\ issued' = issued + 1
        /\ SessAfter("start_session", IssuedIds[issued + 1], "None",
                     StartCall(smgr, trail, IssuedIds[issued + 1], user), NoHttp)
        /\ UNCHANGED pending
        /\ UNCHANGED <<nameVars, valVars, runVars, daxVars, tmdlVars, classVars, buildVars, syncVars, rateVars, chunkVars>>

SessProcess ==
    \E session_id \in CallerIds, a \in ProcessInputs :
        /\ Room
        /\ SessAfter("process_session", session_id, a[4],
                     ProcessCall(smgr, trail, session_id, a[1], a[2], a[3], a[4]), NoHttp)
        /\ UNCHANGED <<issued, pending>>
        /\ UNCHANGED <<nameVars, valVars, runVars, daxVars, tmdlVars, classVars, buildVars, syncVars, rateVars, chunkVars>>

SessClose ==
    \E session_id \in CallerIds, a \in CloseInputs :
        /\ Room
        /\ SessAfter("close_session", session_id, a[2],
                     CloseCall(smgr, trail, session_id, a[1], a[2]), NoHttp)
        /\ UNCHANGED <<issued, pending>>
        /\ UNCHANGED <<nameVars, valVars, runVars, daxVars, tmdlVars, classVars, buildVars, syncVars, rateVars, chunkVars>>

SessSetContext ==
    \E session_id \in ContextIds, context \in ContextInputs :
        /\ SessAfter("set_context", session_id, "None",
                     SetContextCall(smgr, trail, session_id, context), NoHttp)
        /\ UNCHANGED <<issued, pending>>
        /\ UNCHANGED <<nameVars, valVars, runVars, daxVars, tmdlVars, classVars, buildVars, syncVars, rateVars, chunkVars>>

SessGetContext ==
    \E session_id \in ContextIds :
        /\ SessAfter("get_context", session_id, "None", GetContextCall(smgr, trail, session_id), NoHttp)
        /\ UNCHANGED <<issued, pending>>
        /\ UNCHANGED <<nameVars, valVars, runVars, daxVars, tmdlVars, classVars, buildVars, syncVars, rateVars, chunkVars>>

\* SessionManager.reset: the sessions are dropped, the audit trail keeps its
\* records; uuid4 does not return a dropped id again
SessionManagerReset ==
    /\ smgr' = NoSessions
    /\ reply' = Reply("SessionManager.reset", "", "None", "None", NoHttp)
    /\ UNCHANGED <<trail, issued, pending>>
    /\ UNCHANGED <<nameVars, valVars, runVars, daxVars, tmdlVars, classVars, buildVars, syncVars, rateVars, chunkVars>>

\* AuditTrail.reset: the records are dropped, the sessions keep their history
AuditTrailReset ==
    /\ trail' = <<>>
    /\ reply' = Reply("AuditTrail.reset", "", "None", "None", NoHttp)
    /\ UNCHANGED <<smgr, issued, pending>>
    /\ UNCHANGED <<nameVars, valVars, runVars, daxVars, tmdlVars, classVars, buildVars, syncVars, rateVars, chunkVars>>

\* an endpoint up to its await: without the header it answers 400 at once,
\* with it the request waits for its body
ApiReceive(op, header_id) ==
    /\ IF header_id = ""
       THEN /\ reply' = Reply(op, "", "None", "None",
                              EndpointResponse(header_id, Returned(smgr, trail)))
            /\ UNCHANGED pending
       ELSE /\ Cardinality(pending) < MaxPending
            /\ pending' = pending \cup {PendingRequest(op, header_id)}
            /\ reply' = Reply("await request.json", "", "None", "None", NoHttp)
    /\ UNCHANGED <<smgr, trail, issued>>
    /\ UNCHANGED <<nameVars, valVars, runVars, daxVars, tmdlVars, classVars, buildVars, syncVars, rateVars, chunkVars>>

\* POST /process, to the await of the body
ApiProcessReceive == \E header_id \in HeaderIds : ApiReceive("POST /process", header_id)

\* POST /process, from the arrival of the body
ApiProcess ==
    \E request \in pending, a \in ProcessInputs :
        /\ request.op = "POST /process"
        /\ Room
        /\ pending' = pending \ {request}
        /\ \E outcome \in {ProcessCall(smgr, trail, request.header_id, a[1], a[2], a[3], a[4])} :
              SessAfter("POST /process", request.header_id, a[4], outcome,
                        EndpointResponse(request.header_id, outcome))
        /\ UNCHANGED issued
        /\ UNCHANGED <<nameVars, valVars, runVars, daxVars, tmdlVars, classVars, buildVars, syncVars, rateVars, chunkVars>>

\* POST /session/close, to the await of the body
ApiCloseReceive == \E header_id \in HeaderIds : ApiReceive("POST /session/close", header_id)

\* POST /session/close, from the arrival of the body
ApiClose ==
    \E request \in pending, a \in CloseInputs :
        /\ request.op = "POST /session/close"
        /\ Room
        /\ pending' = pending \ {request}
        /\ \E outcome \in {CloseCall(smgr, trail, request.header_id, a[1], a[2])} :
              SessAfter("POST /session/close", request.header_id, a[2], outcome,
                        EndpointResponse(request.header_id, outcome))
        /\ UNCHANGED issued
        /\ UNCHANGED <<nameVars, valVars, runVars, daxVars, tmdlVars, classVars, buildVars, syncVars, rateVars, chunkVars>>

SessNext ==
    \/ SessStart \/ SessProcess \/ SessClose \/ SessSetContext \/ SessGetContext
    \/ SessionManagerReset \/ AuditTrailReset
    \/ ApiProcessReceive \/ ApiProcess \/ ApiCloseReceive \/ ApiClose

----------------------------------------------------------------------------
(* Requests through the rate limiter from two addresses while time passes. *)
(* rate_limit_store is a defaultdict: an address not seen yet has the      *)
(* empty list.  The clock is read in whole seconds and advances in steps   *)
(* of TickSeconds; admitted is the list of the times of all requests let   *)
(* through so far, kept for the properties only.                           *)

MaxTicks == 2

\* half a period, so that requests are two steps apart when they expire
TickSeconds == RATE_PERIOD \div 2

ClientIps == {"10.0.0.1", "10.0.0.2"}

NoRateResponse == [ip |-> "None", code |-> 0, detail |-> "None"]

RateIdle ==
    /\ rate_limit_store = [ip \in ClientIps |-> <<>>]
    /\ wall = 0
    /\ rate_response = NoRateResponse
    /\ admitted = [ip \in ClientIps |-> <<>>]

RateInit == RateIdle

\* one request passes through rate_limiter
RateRequest ==
    \E ip \in ClientIps :
        \E out \in {rate_limiter(rate_limit_store, ip, wall)} :
            /\ rate_limit_store' = out.store
            /\ rate_response' = [ip |-> ip, code |-> out.code, detail |-> out.detail]
            /\ admitted' = IF out.code = 200 THEN [admitted EXCEPT ![ip] = Append(@, wall)]
                           ELSE admitted
            /\ UNCHANGED wall
            /\ UNCHANGED <<nameVars, valVars, runVars, daxVars, tmdlVars, classVars, buildVars, syncVars, sessVars, chunkVars>>

\* time passes
RateTick ==
    /\ wall < MaxTicks * TickSeconds
    /\ wall' = wall + TickSeconds
    /\ UNCHANGED <<rate_limit_store, rate_response, admitted>>
    /\ UNCHANGED <<nameVars, valVars, runVars, daxVars, tmdlVars, classVars, buildVars, syncVars, sessVars, chunkVars>>

RateNext == RateRequest \/ RateTick

----------------------------------------------------------------------------
(* One call of _chunk_text, a pass of its while loop at a time.  The text  *)
(* is the list of its words after split(), numbered in order.  Of a chunks *)
(* list that has reached MaxChunks entries only the first MaxChunks are    *)
(* kept, with the parity of its length: what the loop does next depends on *)
(* start alone.                                                            *)

MaxWords == 3

MaxChunkSize == 3

MaxOverlap == 3

MaxChunks == 4

ChunkIdle ==
    /\ kpc = "idle"
    /\ kwords = <<>>
    /\ ksize = 1
    /\ koverlap = 0
    /\ kstart = 0
    /\ kchunks = <<>>
    /\ kparity = 0

ChunkInit ==
    /\ kpc = "call"
    /\ kwords \in {[i \in 1..n |-> i] : n \in 0..MaxWords}
    /\ ksize \in 1..MaxChunkSize
    /\ koverlap \in 0..MaxOverlap
    /\ kstart = 0
    /\ kchunks = <<>>
    /\ kparity = 0

\* words = text.split(); if not words: return []
ChunkBegin ==
    /\ kpc = "call"
    /\ kpc' = IF kwords = <<>> THEN "done" ELSE "loop"
    /\ UNCHANGED <<kwords, ksize, koverlap, kstart, kchunks, kparity>>
    /\ UNCHANGED <<nameVars, valVars, runVars, daxVars, tmdlVars, classVars, buildVars, syncVars, sessVars, rateVars>>

\* one pass of the while loop
ChunkStep ==
    /\ kpc = "loop"
    /\ kstart < Len(kwords)
    /\ \E end \in {ChunkEnd(Len(kwords), kstart, ksize)} :
          /\ kchunks' = IF Len(kchunks) < MaxChunks
                         THEN Append(kchunks, ChunkOf(kwords, kstart, end))
                         ELSE kchunks
          /\ kparity' = (kparity + 1) % 2
          /\ IF end = Len(kwords)
             THEN kpc' = "done" /\ kstart' = kstart
             ELSE kpc' = "loop" /\ kstart' = NextStart(end, koverlap)
    /\ UNCHANGED <<kwords, ksize, koverlap>>
    /\ UNCHANGED <<nameVars, valVars, runVars, daxVars, tmdlVars, classVars, buildVars, syncVars, sessVars, rateVars>>

\* the loop is left by its break alone: start < length holds at every pass
ChunkNext == ChunkBegin \/ ChunkStep

----------------------------------------------------------------------------
(* Properties of the standards validator                                   *)

\* the issues and fixes a step appends
NewIssues == SubSeq(issues', Len(issues) + 1, Len(issues'))

NewFixes == SubSeq(fixes', Len(fixes) + 1, Len(fixes'))

\* a step that runs one iteration of the measure loop, of the column loop
MeasureStep == vpc = "measures" /\ mi <= Len(structure.measures) /\ mi' = mi + 1

ColumnStep == vpc = "columns" /\ ci <= Len(structure.columns) /\ ci' = ci + 1

\* the check an issue comes from, read off its rule text
NamingTexts ==
    {"DAX measures must follow snake_case with a semantic prefix", "Measures must follow: ",
     "Columns should use PascalCase with optional spaces", "Columns should follow: "}

FolderTexts ==
    {"Measures should define a display folder for report organization",
     "Display folder should match approved MCP catalog",
     "Column display folders should use approved naming conventions",
     "Measures and columns should reside in the curated display folders."}

FormatTexts ==
    {"Measures should specify formatString for consistent presentation",
     "Measures should specify formatString for consistent reporting."}

IsNamingIssue(i) == i.rule.text \in NamingTexts

IsFolderIssue(i) == i.rule.text \in FolderTexts

IsFormatIssue(i) == i.rule.text \in FormatTexts

\* C1: the status is skipped exactly for the empty structure, and then the
\* result has no issues, no fixes and a count of 0; for every other structure
\* the status is issues_found exactly when the count is positive and ok exactly
\* when it is 0; the count is always the length of the issue list.
C1_StatusResolution ==
    vpc = "done" =>
        /\ (result.status = "skipped") <=> ~structure.parsed
        /\ result.status = "skipped" =>
              result.issues = <<>> /\ result.auto_fixes = <<>> /\ result.issue_count = 0
        /\ structure.parsed =>
              /\ (result.status = "issues_found") <=> (result.issue_count > 0)
              /\ (result.status = "ok") <=> (result.issue_count = 0)
        /\ result.issue_count = Len(result.issues)

\* a finished run over measures whose only issues are scanner findings, which
\* carry no suggestion and no fix
C1_Witness ==
    /\ vpc = "done"
    /\ result.status = "issues_found"
    /\ result.issue_count > 0
    /\ \A k \in 1..Len(result.issues) : result.issues[k].suggested = None
    /\ result.auto_fixes = <<>>

\* what a loop iteration appends for the naming check of entity e: one issue and
\* one rename fix with the given suggestion when flagged, nothing otherwise
NamingOutcome(entity, e, flagged, suggestion) ==
    LET ni == SelectSeq(NewIssues, IsNamingIssue)
        nf == SelectSeq(NewFixes, LAMBDA f : f.action = "None")
    IN IF flagged
       THEN /\ Len(ni) = 1
            /\ ni[1].entity = entity
            /\ ni[1].name = e.name
            /\ ni[1].suggested = Str(suggestion)
            /\ Len(nf) = 1
            /\ nf[1].entity = entity
            /\ nf[1].current = e.name
            /\ nf[1].suggested = Str(suggestion)
       ELSE ni = <<>> /\ nf = <<>>

\* C2: for every catalog that load_catalog yields, the iteration for a measure
\* appends exactly one naming issue and one rename fix iff the name does not
\* match the snake_case pattern, the iteration for a column iff the name does not
\* match the PascalCase-with-spaces pattern, and none otherwise; the suggested
\* value is to_snake_case(name), respectively to_pascal_case_with_spaces(name).
C2_NamingFlaggedIffMismatch ==
    [][ /\ MeasureStep =>
            NamingOutcome("measure", structure.measures[mi],
                          ~SNAKE_CASE_RE(structure.measures[mi].name),
                          to_snake_case(structure.measures[mi].name))
        /\ ColumnStep =>
            NamingOutcome("column", structure.columns[ci],
                          ~PASCAL_CASE_WITH_SPACES_RE(structure.columns[ci].name),
                          to_pascal_case_with_spaces(structure.columns[ci].name)) ]_vars

\* the column customer id has been flagged with the suggestion Customer Id
C2_Witness ==
    /\ vpc = "done"
    /\ \E k \in 1..Len(result.issues) :
          /\ result.issues[k].entity = "column"
          /\ result.issues[k].name = customer_id
          /\ result.issues[k].suggested = Str(Customer_Id)

NamingIssuesFor(n) ==
    SelectSeq(result.issues, LAMBDA i : i.entity = "measure" /\ i.name = n /\ IsNamingIssue(i))

MeasuresNamed(n) == SelectSeq(structure.measures, LAMBDA m : m.name = n)

\* C3 as stated: a measure named Total_Sales gets no naming issue, and a measure
\* named TotalSales gets exactly one, with the suggestion total_sales.
C3_AsStated ==
    vpc = "done" /\ structure.parsed =>
        /\ MeasuresNamed(Total_Sales) # <<>> => NamingIssuesFor(Total_Sales) = <<>>
        /\ Len(MeasuresNamed(TotalSales)) = 1 =>
              /\ Len(NamingIssuesFor(TotalSales)) = 1
              /\ NamingIssuesFor(TotalSales)[1].suggested = Str(total_sales)

\* C3, amended: a measure named total_sales gets no naming issue; every measure
\* named Total_Sales or TotalSales gets exactly one, with the suggestion
\* total_sales.
C3_UpperCaseIsFlagged ==
    vpc = "done" /\ structure.parsed =>
        /\ NamingIssuesFor(total_sales) = <<>>
        /\ \A n \in {Total_Sales, TotalSales} :
              /\ Len(NamingIssuesFor(n)) = Len(MeasuresNamed(n))
              /\ \A k \in 1..Len(NamingIssuesFor(n)) :
                    NamingIssuesFor(n)[k].suggested = Str(total_sales)

\* a finished run over a measure named Total_Sales that was flagged
C3_Witness ==
    /\ vpc = "done"
    /\ MeasuresNamed(Total_Sales) # <<>>
    /\ MeasuresNamed(TotalSales) # <<>>
    /\ Len(NamingIssuesFor(Total_Sales)) = 1

\* the allowed-folder set and the default folder of the loaded catalog
AllowedSet ==
    IF HasRule(catalog, ID_DISPLAY_FOLDER)
    THEN Range(RULE_LOOKUP(catalog, ID_DISPLAY_FOLDER).allowed)
    ELSE {}

\* the value the rule assigns; for a rule that assigns none, the allowed
\* folder the process takes as the first of the set; "_Final" when there is
\* neither
RuleDefaultFolder ==
    IF HasRule(catalog, ID_DISPLAY_FOLDER) /\
       RULE_LOOKUP(catalog, ID_DISPLAY_FOLDER).fix_type = "assign"
    THEN RULE_LOOKUP(catalog, ID_DISPLAY_FOLDER).fix_value
    ELSE IF AllowedSet # {} THEN first_folder
    ELSE FINAL_FOLDER

\* list holds the elements of set once each, in ascending order
IsSortedListOf(list, set) ==
    /\ Range(list) = set
    /\ Len(list) = Cardinality(set)
    /\ \A k \in 1..(Len(list) - 1) : StrLess(list[k], list[k + 1])

\* what a loop iteration appends for the display-folder check of entity e
FolderOutcome(entity, e) ==
    LET fi == SelectSeq(NewIssues, IsFolderIssue)
        ff == SelectSeq(NewFixes, LAMBDA f : f.action = "set_display_folder")
        missing == Falsy(e.display_folder)
        outside == /\ ~missing
                   /\ AllowedSet # {}
                   /\ e.display_folder \notin AllowedSet
        flagged == (entity = "measure" /\ missing) \/ outside
    IN /\ Len(fi) = (IF flagged THEN 1 ELSE 0)
       /\ flagged => fi[1].entity = entity /\ fi[1].name = e.name
       /\ outside =>
             /\ fi[1].found = e.display_folder
             /\ fi[1].suggested[1] = "list"
             /\ IsSortedListOf(fi[1].suggested[2], AllowedSet)
       /\ flagged /\ Truthy(e.table) =>
             /\ Len(ff) = 1
             /\ ff[1].entity = entity
             /\ ff[1].table = e.table
             /\ ff[1].current = e.name
             /\ ff[1].suggested = Str(RuleDefaultFolder)
       /\ ~flagged => ff = <<>>

\* C6: an iteration appends a display-folder issue iff the entity is a measure
\* with no folder, or a measure or column with a folder while the allowed set is
\* non-empty and the folder is not in it; a column with no folder is never
\* flagged; an out-of-set issue carries the found folder and the sorted allowed
\* set; when the flagged entity has a table, one set_display_folder fix with the
\* default folder is appended with the issue.
C6_DisplayFolderPolicy ==
    [][ /\ MeasureStep => FolderOutcome("measure", structure.measures[mi])
        /\ ColumnStep => FolderOutcome("column", structure.columns[ci]) ]_vars

\* allowed folders Sales KPIs only: a measure of table Sales without a folder
\* was given the fix Sales KPIs
C6_Witness ==
    /\ vpc = "done"
    /\ AllowedSet = {Sales_KPIs}
    /\ \E k \in 1..Len(structure.measures) :
          Falsy(structure.measures[k].display_folder) /\ Truthy(structure.measures[k].table)
    /\ \E k \in 1..Len(result.auto_fixes) :
          /\ result.auto_fixes[k].action = "set_display_folder"
          /\ result.auto_fixes[k].entity = "measure"
          /\ result.auto_fixes[k].suggested = Str(Sales_KPIs)

\* C7: every fix collected so far has a non-empty table and a non-empty
\* current name.
C7_FixesHaveTableAndName ==
    \A k \in 1..Len(fixes) : Truthy(fixes[k].table) /\ Truthy(fixes[k].current)

IsPrefix(a, b) == Len(a) <= Len(b) /\ SubSeq(b, 1, Len(a)) = a

\* the position of an issue in the fixed check order of a measure
CheckRank(i) ==
    IF IsNamingIssue(i) THEN 1
    ELSE IF IsFolderIssue(i) THEN 2
    ELSE IF IsFormatIssue(i) THEN 3
    ELSE 4

\* everything a step appends belongs to the entity e
AppendedFor(entity, e) ==
    /\ \A k \in 1..Len(NewIssues) : NewIssues[k].entity = entity /\ NewIssues[k].name = e.name
    /\ \A k \in 1..Len(NewFixes) : NewFixes[k].entity = entity /\ NewFixes[k].current = e.name

\* C8: the issue list and the fix list only grow at their ends; the cursors move
\* forward over the measures and then over the columns, one entity per
\* iteration; what an iteration appends belongs to the entity under the cursor;
\* the issues of one measure come in the order naming, display folder, format
\* string, scanner findings; and the result returns the two lists as collected.
C8_EncounterOrder ==
    [][ /\ IsPrefix(issues, issues')
        /\ IsPrefix(fixes, fixes')
        /\ structure' = structure
        /\ mi' \in {mi, mi + 1}
        /\ ci' \in {ci, ci + 1}
        /\ ci' # ci => mi > Len(structure.measures)
        /\ (NewIssues # <<>> \/ NewFixes # <<>>) => MeasureStep \/ ColumnStep
        /\ MeasureStep =>
              /\ AppendedFor("measure", structure.measures[mi])
              /\ \A k \in 1..(Len(NewIssues) - 1) :
                    /\ CheckRank(NewIssues[k]) <= CheckRank(NewIssues[k + 1])
                    /\ CheckRank(NewIssues[k]) < 4 =>
                          CheckRank(NewIssues[k]) < CheckRank(NewIssues[k + 1])
        /\ ColumnStep => AppendedFor("column", structure.columns[ci])
        /\ result' # result /\ structure.parsed =>
              result'.issues = issues /\ result'.auto_fixes = fixes ]_vars

\* a finished run over two measures and a column that all have issues, the
\* first measure of every kind
C8_Witness ==
    /\ vpc = "done"
    /\ Len(structure.measures) = 2
    /\ Len(structure.columns) = 1
    /\ structure.measures[1] = Measure(Sales, TotalSales, None, None, E_div)
    /\ structure.measures[2].name = Total_Sales
    /\ result.issues[Len(result.issues)].entity = "column"
    /\ Len(result.issues) >= 7

----------------------------------------------------------------------------
(* Properties of the naming transformer                                    *)

\* C4: for every name, to_snake_case(name) matches the snake_case pattern and
\* to_pascal_case_with_spaces(name) matches the PascalCase-with-spaces pattern.
C4_SuggestionsConform ==
    /\ npc = "snake" => SNAKE_CASE_RE(snake)
    /\ npc = "pascal" => PASCAL_CASE_WITH_SPACES_RE(pascal)

\* C5: both transforms return a string for every string, and applying a
\* transform to its own output returns that output.
C5_Idempotent ==
    /\ npc \in {"snake", "snake_again"} => snake # None
    /\ npc \in {"pascal", "pascal_again"} => pascal # None
    /\ npc = "snake_again" => snake = name
    /\ npc = "pascal_again" => pascal = name

\* a second application to an output that has an underscore in it
C5_Witness ==
    /\ npc = "snake_again"
    /\ snake = <<"a", "_", "b", "1">>

----------------------------------------------------------------------------
(* Properties of the loader and the pipeline orchestrator                  *)

\* C9: loading any source and validating what was loaded never raises, and the
\* validation of a source from which no structure could be parsed is skipped.
C9_NeverRaises ==
    /\ ~(rpc = "raised" /\ loaded.origin = "load_model_structure")
    /\ summary.standards # NoResult /\ ~loaded.structure.parsed =>
          summary.standards.status = "skipped"

Actions(entries) == [k \in 1..Len(entries) |-> entries[k].action]

StepNames == [k \in 1..Len(PIPELINE_STEPS) |-> PIPELINE_STEPS[k][1]]

\* C10: while the steps run, the session history and the audit records of the
\* session are init followed by the steps taken so far, one entry each, in the
\* order ingest, classify, standards, report, and summary.steps lists the same
\* steps; when run_source returns, all four steps were taken, close follows
\* them in both lists and the session status is closed.
C10_FixedStepSequence ==
    rpc \in {"steps", "done"} =>
        LET taken == Len(summary.steps)
            expected == <<"init">> \o SubSeq(StepNames, 1, taken)
                        \o (IF rpc = "done" THEN <<"close">> ELSE <<>>)
        IN /\ taken <= Len(PIPELINE_STEPS)
           /\ StepNames = <<"ingest", "classify", "standards", "report">>
           /\ Actions(summary.steps) = SubSeq(StepNames, 1, taken)
           /\ Actions(sessions[SID].history) = expected
           /\ Actions(get_session_records(audit, SID)) = expected
           /\ Len(audit) = Len(expected)
           /\ rpc = "done" => taken = Len(PIPELINE_STEPS) /\ sessions[SID].status = "closed"

\* a returned run whose standards step found issues
C10_Witness ==
    /\ rpc = "done"
    /\ summary.standards.status = "issues_found"
    /\ Len(sessions[SID].history) = 6

\* C11: a step that failed has a status other than ok in summary.steps, in the
\* session history and in the audit records, and the steps after it still run;
\* in particular the standards step whose validation was skipped is not
\* recorded as ok, and the report step follows it.
C11_FailureSurfaces ==
    \A k \in 1..Len(summary.steps) :
        summary.steps[k].action = "standards"
        /\ summary.steps[k].validation.status = "skipped" =>
            /\ summary.steps[k].status # "ok"
            /\ sessions[SID].history[k + 1].status # "ok"
            /\ get_session_records(audit, SID)[k + 1].status # "ok"
            /\ rpc = "done" => summary.steps[Len(summary.steps)].action = "report"

----------------------------------------------------------------------------
(* Properties of the expression scanner                                    *)

\* the text left of an expression once block comments, then line comments and
\* blank lines are removed
Remaining(e) == Join(CodeLines(SplitLines(StripBlockComments(e), <<>>)), <<"\n">>)

CountedLines(e) == Len(CodeLines(SplitLines(StripBlockComments(e), <<>>)))

HasFinding(k, rule_id) == \E j \in 1..Len(findings[k]) : findings[k][j].rule_id = rule_id

\* C12: the division rule is flagged iff the text left after comment removal
\* has a slash and no DIVIDE( in any letter case; [A]/[B] is flagged,
\* DIVIDE([A],[B]) is not, and a slash that stands only in a line comment or in
\* a block comment is not.
C12_DivisionFlag ==
    dpc = "done" =>
        \A k \in 1..Len(DaxCatalogs) :
            /\ HasFinding(k, ID_DIVISION) <=>
                  /\ Truthy(expr)
                  /\ Contains(Remaining(expr), <<"/">>)
                  /\ ~Contains(Upper(Remaining(expr)), <<"D", "I", "V", "I", "D", "E", "(">>)
            /\ expr = E_div => HasFinding(k, ID_DIVISION)
            /\ expr = E_divide => ~HasFinding(k, ID_DIVISION)
            /\ expr \in {<<"x", "-", "-", "/">>, <<"x", "/", "/", "/">>,
                         <<"x", "/", "*", "/", "*", "/">>, <<"/", "*", "\n", "/", "*", "/">>}
                  => ~HasFinding(k, ID_DIVISION)

\* a slash followed by a line comment that holds the only DIVIDE( of the text
C12_Witness ==
    /\ dpc = "done"
    /\ expr = <<"/", "-", "-", "D", "i", "v", "i", "d", "e", "(">>
    /\ HasFinding(1, ID_DIVISION)

\* the keyword VAR stands in the text as a word of its own, followed by white space
DeclaresVar(e) ==
    LET u == Upper(Remaining(e))
    IN \E i \in 1..Len(u) :
          /\ StartsAt(u, i, <<"V", "A", "R">>)
          /\ i = 1 \/ ~(IsAlnum(u[i - 1]) \/ u[i - 1] = "_")
          /\ i + 3 <= Len(u) /\ IsSpace(u[i + 3])

\* C13: the long-measure rule is flagged iff at least 4 lines are left after
\* comment removal and none of them declares a VAR, in any letter case.
C13_GiantFlag ==
    dpc = "done" =>
        \A k \in 1..Len(DaxCatalogs) :
            HasFinding(k, ID_GIANT) <=>
                /\ Truthy(expr)
                /\ CountedLines(expr) >= 4
                /\ ~DeclaresVar(expr)

\* some call of ALL in the text u has a non-empty argument without a bracket
SomeAllTableCall(u) ==
    \E i \in 1..Len(u) : \E q \in (i + 3)..Len(u) : \E c \in (q + 2)..Len(u) :
        /\ StartsAt(u, i, <<"A", "L", "L">>)
        /\ \A w \in (i + 3)..(q - 1) : IsSpace(u[w])
        /\ u[q] = "("
        /\ u[c] = ")"
        /\ \A a \in (q + 1)..(c - 1) : u[a] # ")" /\ u[a] # "["

ScannerOrder ==
    <<ID_DIVISION, ID_COUNTING, ID_GIANT, ID_ALL_TABLE, ID_LOOKUPVALUE>>

ScannerRank(rule_id) == CHOOSE r \in 1..Len(ScannerOrder) : ScannerOrder[r] = rule_id

\* C14: every rule id appears at most once in the findings, the findings follow
\* the order division, counting, giant measure, ALL table, LOOKUPVALUE, and the
\* ALL finding is there iff some call of ALL has an argument without a bracket.
C14_OncePerRule ==
    dpc = "done" =>
        \A k \in 1..Len(DaxCatalogs) :
            /\ \A j \in 1..Len(findings[k]) :
                  \E r \in 1..Len(ScannerOrder) : ScannerOrder[r] = findings[k][j].rule_id
            /\ \A j \in 1..(Len(findings[k]) - 1) :
                  ScannerRank(findings[k][j].rule_id) < ScannerRank(findings[k][j + 1].rule_id)
            /\ HasFinding(k, ID_ALL_TABLE) <=>
                  (Truthy(expr) /\ SomeAllTableCall(Upper(Remaining(expr))))

RuleIds(fs) == [j \in 1..Len(fs) |-> fs[j].rule_id]

FallbackText(rule_id) ==
    CASE rule_id = ID_DIVISION ->
            "Use DIVIDE() instead of the raw division operator to avoid division-by-zero."
      [] rule_id = ID_COUNTING ->
            "Prefer COUNTROWS() over COUNT(<column>) for row counting."
      [] rule_id = ID_GIANT ->
            "Long DAX measures should declare intermediate VAR blocks for readability."
      [] rule_id = ID_ALL_TABLE ->
            "Use ALL(<column>) instead of ALL(<table>) to preserve slicer context when possible."
      [] rule_id = ID_LOOKUPVALUE ->
            "LOOKUPVALUE detected. Prefer model relationships or TREATAS for relational filtering."

\* C15: under any two catalogs the scanner returns the same rule ids in the
\* same order; the text of a finding is the description of its rule in the
\* catalog when the catalog has the rule, and the fixed fallback text otherwise.
C15_CatalogIndependent ==
    dpc = "done" =>
        /\ \A k1, k2 \in 1..Len(DaxCatalogs) : RuleIds(findings[k1]) = RuleIds(findings[k2])
        /\ \A k \in 1..Len(DaxCatalogs) : \A j \in 1..Len(findings[k]) :
              LET rule_id == findings[k][j].rule_id
              IN findings[k][j].rule =
                    IF \E r \in 1..Len(DaxCatalogs[k].rules) : DaxCatalogs[k].rules[r].id = rule_id
                    THEN (CHOOSE rule \in Range(DaxCatalogs[k].rules) : rule.id = rule_id).description
                    ELSE Desc(FallbackText(rule_id), "", <<>>)

\* four findings, of which the catalog describes two in its own words
C15_Witness ==
    /\ dpc = "done"
    /\ Len(findings[1]) = 4
    /\ Cardinality({j \in 1..4 : findings[1][j].rule # findings[2][j].rule}) = 2

----------------------------------------------------------------------------
(* Properties of the patch generator                                       *)

\* a fix that has a table, a current name and a suggested value
Eligible(fix) == Truthy(fix.table) /\ Truthy(fix.current) /\ fix.suggested # None

EligibleFixes == SelectSeq(tmdl_fixes, Eligible)

\* the lines of the patch, each closed by a line break
LineBreaks == {i \in 1..Len(patch) : patch[i] = "\n"}

LineBreak(k) == CHOOSE p \in LineBreaks : Cardinality({q \in LineBreaks : q < p}) = k - 1

PatchLines ==
    [k \in 1..Cardinality(LineBreaks) |->
        SubSeq(patch, IF k = 1 THEN 1 ELSE LineBreak(k - 1) + 1, LineBreak(k) - 1)]

EndsWith(s, sub) == Len(sub) <= Len(s) /\ SubSeq(s, Len(s) - Len(sub) + 1, Len(s)) = sub

\* line is the statement for fix: an ALTER statement of the entity with the
\* clause of the action, or the commented placeholder naming the action
StatementFor(line, fix) ==
    LET action == IF fix.action = "None" THEN "rename" ELSE fix.action
        target == <<"[">> \o escape_brackets(fix.current) \o <<"]">>
        alter == Chars(IF fix.entity = "measure" THEN "ALTER MEASURE '" ELSE "ALTER COLUMN '")
    IN CASE action = "rename" ->
               /\ StartsAt(line, 1, alter)
               /\ Contains(line, target \o Chars(" RENAME TO ["))
               /\ EndsWith(line, Chars("];"))
         [] action = "set_display_folder" ->
               /\ StartsAt(line, 1, alter)
               /\ Contains(line, target \o Chars(" SET DISPLAYFOLDER = '"))
               /\ EndsWith(line, Chars("';"))
         [] action = "set_format_string" ->
               /\ StartsAt(line, 1, alter)
               /\ Contains(line, target \o Chars(" SET FORMAT_STRING = \""))
               /\ EndsWith(line, Chars("\";"))
         [] OTHER ->
               /\ StartsAt(line, 1, Chars("// Pending support for action '") \o Chars(action)
                                    \o Chars("' on "))
               /\ Contains(line, fix.table \o <<".">> \o fix.current)

\* C16: the patch is the empty string iff the fix list is empty; otherwise it
\* is the header comment followed by one line for each fix that has a table, a
\* current name and a suggested value, in input order: an ALTER statement for
\* rename (also when the action is missing), set_display_folder and
\* set_format_string, a commented placeholder for any other action; the other
\* fixes contribute no line.
C16_PatchLines ==
    tpc = "done" =>
        /\ (patch = <<>>) <=> (tmdl_fixes = <<>>)
        /\ tmdl_fixes # <<>> =>
              /\ patch[Len(patch)] = "\n"
              /\ Len(PatchLines) = 1 + Len(EligibleFixes)
              /\ PatchLines[1] = Chars("// Suggested safe statements (review before applying)")
              /\ \A k \in 1..Len(EligibleFixes) :
                    StatementFor(PatchLines[k + 1], EligibleFixes[k])

\* three fixes: a rename without the action key, one without a table, one with
\* an action that has no statement
C16_Witness ==
    /\ tpc = "done"
    /\ Len(tmdl_fixes) = 3
    /\ tmdl_fixes[1].action = "None" /\ Eligible(tmdl_fixes[1])
    /\ tmdl_fixes[2].table = None
    /\ tmdl_fixes[3].action = "hide"
    /\ Len(PatchLines) = 3

----------------------------------------------------------------------------
(* Properties of the classifier                                            *)

Resolved == cpc \in {"ranked", "profiled", "done"}

\* the highest score of the score map
TopScore ==
    CHOOSE top \in {scores[k][2] : k \in 1..Len(scores)} :
        \A k \in 1..Len(scores) : scores[k][2] <= top

\* the domains with a positive score within one point of the top score
NearTopDomains ==
    {scores[k][1] : k \in {j \in 1..Len(scores) :
                              scores[j][2] > 0 /\ scores[j][2] >= TopScore - 1}}

\* the candidates are the entries of the score map, by descending score
RankedByScore(ranked) ==
    /\ Len(ranked) = Len(scores)
    /\ Range(ranked) = Range(scores)
    /\ \A i, j \in 1..Len(ranked) : i < j => ranked[i][2] >= ranked[j][2]

\* C17: determine_primary_domain resolves the score map: with no scored domain
\* the result is generic with no candidates; otherwise the candidates are the
\* scored domains by descending score, and the result is multi-domain exactly
\* when two or more domains have a positive score within one point of the top
\* score, else the single top domain; for multi-domain the candidates are kept
\* and classify_source looks up the profile of the highest-ranked candidate.
C17_DomainResolution ==
    /\ Resolved /\ scores = <<>> => resolved = [domain |-> "generic", ranked |-> <<>>]
    /\ Resolved /\ scores # <<>> =>
          /\ RankedByScore(resolved.ranked)
          /\ resolved.ranked[1][2] = TopScore
          /\ (resolved.domain = "multi-domain") <=> (Cardinality(NearTopDomains) >= 2)
          /\ Cardinality(NearTopDomains) < 2 =>
                /\ resolved.domain = resolved.ranked[1][1]
                /\ NearTopDomains = {resolved.domain}
    /\ cpc \in {"profiled", "done"} /\ resolved.domain = "multi-domain" =>
          profile_md = load_profile_metadata(cargs.profiles, resolved.ranked[1][1])
    /\ cpc = "done" =>
          /\ classification.domain = resolved.domain
          /\ classification.domain_candidates = resolved.ranked
          /\ classification.profile_loaded = (profile_md # EmptyDict)

\* a finished classification of three scored domains whose two best are one point
\* apart, with the profile of the best one loaded
C17_Witness ==
    /\ cpc = "done"
    /\ classification.domain = "multi-domain"
    /\ Len(classification.domain_candidates) = 3
    /\ classification.domain_candidates[1][2] = classification.domain_candidates[2][2] + 1
    /\ classification.profile_loaded
    /\ Chars(classification.domain_candidates[1][1]) \in DOMAIN cargs.profiles.files

\* C18: in the merged metadata every key of the artifact metadata has the
\* value of the artifact and every other key the value of the profile, except
\* tags, which are the union without duplicates of the two sides when both of
\* them give a list.
C18_ArtifactOverrides ==
    cpc = "done" =>
        LET metadata == cargs.metadata
            merged == classification.metadata
            both_lists == /\ "tags" \in DOMAIN metadata /\ "tags" \in DOMAIN profile_md
                          /\ IsList(metadata["tags"]) /\ IsList(profile_md["tags"])
        IN /\ DOMAIN merged = DOMAIN metadata \cup DOMAIN profile_md
           /\ \A key \in DOMAIN merged :
                 IF key = "tags" /\ both_lists
                 THEN /\ IsList(merged[key])
                      /\ Range(merged[key][2]) =
                            Range(metadata[key][2]) \cup Range(profile_md[key][2])
                      /\ Len(merged[key][2]) = Cardinality(Range(merged[key][2]))
                 ELSE IF key \in DOMAIN metadata THEN merged[key] = metadata[key]
                 ELSE merged[key] = profile_md[key]

----------------------------------------------------------------------------
(* Properties of the catalog builder                                       *)

RuleIdsOf(cat) == [i \in 1..Len(cat.rules) |-> cat.rules[i].id]

\* the config the rules of a call are built from
EffectiveConfig == IF config_arg.present THEN config_arg ELSE _legacy_config(legacy_file)

RulesWithId(cat, rule_id) == {i \in 1..Len(cat.rules) : cat.rules[i].id = rule_id}

\* C21: every catalog that build_catalog returns holds the measure naming
\* rule with the configured pattern and the strategy snake_case, the column
\* naming rule with the configured pattern and the strategy
\* pascal_case_with_spaces and the fixed format string rule; it holds the
\* display folder rule exactly when the config lists a folder, and then the
\* value that rule assigns and its default are the first folder listed; and
\* rule_count is the number of rules.
C21_CoreRules ==
    [][Len(built') > Len(built) =>
        LET cat == built'[Len(built')]
            cfg == EffectiveConfig
        IN /\ \E i \in RulesWithId(cat, ID_MEASURE_NAMING) :
                 /\ cat.rules[i].matcher = cfg.measures
                 /\ cat.rules[i].fix_type = "transform"
                 /\ cat.rules[i].fix_strategy = "snake_case"
           /\ \E i \in RulesWithId(cat, ID_COLUMN_NAMING) :
                 /\ cat.rules[i].matcher = cfg.columns
                 /\ cat.rules[i].fix_type = "transform"
                 /\ cat.rules[i].fix_strategy = "pascal_case_with_spaces"
           /\ \E i \in RulesWithId(cat, ID_FORMAT_STRING) :
                 /\ cat.rules[i].fix_type = "assign"
                 /\ cat.rules[i].fix_value = RECOMMENDED_FORMAT
           /\ (RulesWithId(cat, ID_DISPLAY_FOLDER) # {}) <=> (cfg.folders # <<>>)
           /\ \A i \in RulesWithId(cat, ID_DISPLAY_FOLDER) :
                 /\ cat.rules[i].allowed = cfg.folders
                 /\ cat.rules[i].fix_type = "assign"
                 /\ cat.rules[i].fix_value = cfg.folders[1]
                 /\ cat.rules[i].default = cfg.folders[1]
           /\ cat.rule_count = Len(cat.rules)]_vars

\* a catalog built from a config with two folders, and one built from a config
\* with none
C21_Witness ==
    /\ Len(built) = 2
    /\ config_arg = FullConfig
    /\ \E i \in RulesWithId(built[1], ID_DISPLAY_FOLDER) :
          Len(built[1].rules[i].allowed) = 2 /\ built[1].rules[i].fix_value = Sales_KPIs
    /\ built[1].rule_count = 12

\* C22: a build with no config supplied while the legacy file is absent returns
\* a catalog with an empty rules list and rule_count 0.
C22_EmptyWithoutLegacy ==
    [][(Len(built') > Len(built) /\ ~config_arg.present /\ ~legacy_file.exists) =>
        /\ built'[Len(built')].rules = <<>>
        /\ built'[Len(built')].rule_count = 0]_vars

----------------------------------------------------------------------------
(* Properties of the standards sync                                        *)

\* what build_catalog() returns now
FreshCatalog == build_catalog_at(sync_legacy, EmptyConfig, clock)

\* the catalog file holds something else than the fresh build, versions aside
FileDiffers == _normalise(catalog_file.content) # _normalise(FreshCatalog)

\* C23 as stated: a --check run fails with catalog_outdated exactly when the
\* catalog file exists and differs from the freshly built catalog once the
\* version is stripped from both.
C23_OutdatedIffDiffers ==
    [][SyncCheck =>
        (sync_result'.reason = "catalog_outdated" <=> (catalog_file.exists /\ FileDiffers))]_vars

\* C23: a --check run fails with catalog_missing exactly when the catalog file
\* is absent; it fails with catalog_outdated exactly when the catalog file and
\* the legacy file both exist and the catalog file differs from the freshly
\* built catalog once the version is stripped from both (with the legacy file
\* absent the file is compared with itself); it reports ok otherwise; it never
\* writes the catalog file; and when a sync run came before it with the legacy
\* file and the catalog file untouched in between, it reports ok.
C23_SyncProtocol ==
    [][SyncCheck =>
        /\ sync_result'.reason = "catalog_missing" <=> ~catalog_file.exists
        /\ sync_result'.reason = "catalog_outdated" <=>
               (catalog_file.exists /\ sync_legacy.exists /\ FileDiffers)
        /\ sync_result'.status = "ok" <=>
               (catalog_file.exists /\ (sync_legacy.exists => ~FileDiffers))
        /\ sync_result'.status \in {"ok", "error"}
        /\ sync_result'.exit_code = (IF sync_result'.status = "ok" THEN 0 ELSE 1)
        /\ catalog_file' = catalog_file
        /\ synced => sync_result'.status = "ok"]_vars

\* a --check run reported ok on a catalog a sync run wrote at an earlier time
C23_Witness ==
    /\ synced
    /\ sync_result.status = "ok"
    /\ sync_legacy.exists
    /\ catalog_file.exists
    /\ catalog_file.content.version = Version(0)
    /\ catalog_file.content.rule_count > 3
    /\ clock > 0

----------------------------------------------------------------------------
(* Properties of the session manager                                       *)

HistoryOf(smap, session_id) == smap[session_id].history

\* the history of every session matches the audit records of the session
HistoryMatchesAudit ==
    \A sid \in DOMAIN smgr :
        LET h == HistoryOf(smgr, sid)
            r == get_session_records(trail, sid)
        IN /\ Len(h) = Len(r)
           /\ \A i \in 1..Len(h) :
                 h[i].user = r[i].user /\ h[i].action = r[i].action /\ h[i].status = r[i].status
           /\ Len(h) >= 1
           /\ h[1].action = "init" /\ h[1].status = "started"

\* sessions stay, and their histories only grow at the end
HistoryAppendOnly ==
    \A sid \in DOMAIN smgr :
        /\ sid \in DOMAIN smgr'
        /\ Len(HistoryOf(smgr', sid)) >= Len(HistoryOf(smgr, sid))
        /\ SubSeq(HistoryOf(smgr', sid), 1, Len(HistoryOf(smgr, sid))) = HistoryOf(smgr, sid)

\* the step is a reset of the manager, of the audit trail
ManagerResetStep == reply'.op = "SessionManager.reset"

AuditResetStep == reply'.op = "AuditTrail.reset"

\* C24: after any sequence of start_session, process_session, close_session
\* and set_context calls, the history of every session is as long as the list
\* of audit records with its session id, the i-th history entry and the i-th
\* such record agree on user, action and status, the first entry is
\* init/started, and the history is append-only.  Stated step by step: it holds
\* of the new manager, every step other than a reset of the audit trail keeps
\* it, and every step other than a reset of the manager keeps the sessions and
\* only appends to their histories.
C24_HistoryMatchesAudit ==
    /\ HistoryMatchesAudit
    /\ [][/\ (HistoryMatchesAudit /\ ~AuditResetStep) => HistoryMatchesAudit'
          /\ ~ManagerResetStep => HistoryAppendOnly]_vars

\* two sessions with interleaved audit records, the first of them closed after
\* the second was started, and no reset before
C24_Witness ==
    /\ Len(trail) = 3
    /\ DOMAIN smgr = {"s1", "s2"}
    /\ Len(HistoryOf(smgr, "s1")) = 2
    /\ HistoryOf(smgr, "s1")[2].action = "close"
    /\ trail[2].session_id = "s2"
    /\ HistoryMatchesAudit

\* the last call was one of these and it returned
Succeeded(r, ops) == r.op \in ops /\ r.raised = "None" /\ r.http.code \in {0, 200}

ProcessOps == {"process_session", "POST /process"}

CloseOps == {"close_session", "POST /session/close"}

\* C25: the status of a session is "started" after start_session; after a
\* process_session it is "error" when the status argument is "error" and
\* "processing" otherwise; after a close_session it is the status argument of
\* the close; set_context and get_context change neither status nor history,
\* and no call changes the status of a session other than its own.
C25_StatusFollowsCall ==
    [][/\ Succeeded(reply', {"start_session"}) => smgr'[reply'.session_id].status = "started"
       /\ Succeeded(reply', ProcessOps) =>
             smgr'[reply'.session_id].status =
                 (IF reply'.status = "error" THEN "error" ELSE "processing")
       /\ Succeeded(reply', CloseOps) => smgr'[reply'.session_id].status = reply'.status
       /\ reply'.op \in {"set_context", "get_context"} =>
             /\ DOMAIN smgr' = DOMAIN smgr
             /\ \A sid \in DOMAIN smgr :
                   /\ smgr'[sid].status = smgr[sid].status
                   /\ smgr'[sid].history = smgr[sid].history
       /\ ~ManagerResetStep =>
             \A sid \in DOMAIN smgr \ {reply'.session_id} :
                 smgr'[sid].status = smgr[sid].status]_vars

\* set_context replaced the context of a session closed with its own status,
\* while another session is started
C25_Witness ==
    /\ reply.op = "set_context"
    /\ reply.raised = "None"
    /\ smgr[reply.session_id].status = "failed"
    /\ Len(smgr[reply.session_id].history) = 2
    /\ smgr[reply.session_id].recent_payloads \in ContextInputs
    /\ \E sid \in DOMAIN smgr : smgr[sid].status = "started"

\* C26: process_session, close_session, get_context and set_context with a
\* session id the manager does not hold raise KeyError("session_not_found")
\* and leave the sessions map and the audit trail as they were; /process and
\* /session/close then answer 404 "Session not found".
C26_UnknownSession ==
    [][(reply'.session_id \notin DOMAIN smgr /\ reply'.session_id # "" /\
        reply'.op # "start_session") =>
          /\ reply'.raised = "session_not_found"
          /\ smgr' = smgr
          /\ trail' = trail
          /\ reply'.op \in ProcessOps \cup CloseOps \cup {"set_context", "get_context"}
          /\ reply'.op \in {"POST /process", "POST /session/close"} =>
                reply'.http = HttpResponse(404, "Session not found")]_vars

\* /session/close answered 404 for a session that was started and then
\* removed by a reset of the manager, while its audit records remain
C26_Witness ==
    /\ reply.op = "POST /session/close"
    /\ reply.http.code = 404
    /\ reply.raised = "session_not_found"
    /\ reply.session_id \notin DOMAIN smgr
    /\ get_session_records(trail, reply.session_id) # <<>>

IsClosed(smap, session_id) ==
    session_id \in DOMAIN smap /\
    HistoryOf(smap, session_id)[Len(HistoryOf(smap, session_id))].action = "close"

\* C30: closing is not final: a process_session on a closed session returns,
\* appends one history entry and one audit record and sets the status to
\* "processing" or "error"; a close_session on a closed session returns and
\* appends another close entry.
C30_ClosedNotTerminal ==
    [][(reply'.op \in ProcessOps \cup CloseOps /\ IsClosed(smgr, reply'.session_id)) =>
          LET sid == reply'.session_id
              h == HistoryOf(smgr', sid)
          IN /\ reply'.raised = "None"
             /\ Len(h) = Len(HistoryOf(smgr, sid)) + 1
             /\ Len(get_session_records(trail', sid)) = Len(get_session_records(trail, sid)) + 1
             /\ h[Len(h)].status = reply'.status
             /\ reply'.op \in ProcessOps =>
                   /\ h[Len(h)].action # "close"
                   /\ smgr'[sid].status = (IF reply'.status = "error" THEN "error" ELSE "processing")
             /\ reply'.op \in CloseOps =>
                   /\ h[Len(h)].action = "close"
                   /\ smgr'[sid].status = reply'.status]_vars

\* a session was closed and then processed again through /process
C30_Witness ==
    /\ reply.op = "POST /process"
    /\ reply.http.code = 200
    /\ \E sid \in DOMAIN smgr :
          LET h == HistoryOf(smgr, sid)
          IN /\ sid = reply.session_id
             /\ Len(h) = 3
             /\ h[2].action = "close"
             /\ h[3].action = "validate"
             /\ smgr[sid].status = "processing"

----------------------------------------------------------------------------
(* Properties of the rate limiter                                          *)

\* the requests of ip let through before now and less than RATE_PERIOD ago
AdmittedInWindow(ip) == Len(SelectSeq(admitted[ip], LAMBDA t : wall - t < RATE_PERIOD))

\* C27: a request is let through exactly when fewer than RATE_LIMIT requests
\* of the same address were let through in the last RATE_PERIOD seconds, and
\* is answered 429 and not recorded otherwise; a stored list never holds more
\* than RATE_LIMIT timestamps; a rejected request adds nothing to the list;
\* and a request of one address leaves the list of every other address alone.
C27_SlidingWindow ==
    [][(rate_response'.ip \in ClientIps /\ wall' = wall) =>
          LET ip == rate_response'.ip
          IN /\ rate_response'.code = 200 <=> AdmittedInWindow(ip) < RATE_LIMIT
             /\ rate_response'.code \in {200, 429}
             /\ rate_response'.code = 200 =>
                   /\ admitted'[ip] = Append(admitted[ip], wall)
                   /\ rate_limit_store'[ip] =
                         Append(StillRecent(rate_limit_store[ip], wall), wall)
             /\ rate_response'.code = 429 =>
                   /\ rate_response'.detail = "Rate limit exceeded"
                   /\ admitted' = admitted
                   /\ rate_limit_store'[ip] = StillRecent(rate_limit_store[ip], wall)
                   /\ Len(rate_limit_store'[ip]) = RATE_LIMIT
             /\ Len(rate_limit_store'[ip]) <= RATE_LIMIT
             /\ \A other \in ClientIps \ {ip} :
                   rate_limit_store'[other] = rate_limit_store[other]]_vars

\* an address was let through again once its five earlier requests were
\* RATE_PERIOD old, after a sixth had been turned away, while the other
\* address still had its own requests on record
C27_Witness ==
    \E ip \in ClientIps, other \in ClientIps :
        /\ ip # other
        /\ Len(admitted[ip]) = RATE_LIMIT + 1
        /\ admitted[ip][RATE_LIMIT] = 0
        /\ rate_limit_store[ip] = <<RATE_PERIOD>>
        /\ rate_response = [ip |-> ip, code |-> 200, detail |-> "None"]
        /\ Len(rate_limit_store[other]) = RATE_LIMIT

----------------------------------------------------------------------------
(* Properties of the chunker                                               *)

\* C28: _chunk_text returns for every text, every chunk_size >= 1 and every
\* overlap >= 0, overlap >= chunk_size included.
C28_Terminates == <>(kpc = "done")

----------------------------------------------------------------------------
(* Pairing of fixes and issues in the validator's result                   *)

ScannerIds == {ScannerOrder[r] : r \in 1..Len(ScannerOrder)}

\* the issues the scanner did not raise
CheckIssues(is) == SelectSeq(is, LAMBDA i : i.rule_id \notin ScannerIds)

\* the fix is for the entity and rule the issue names
FixMatchesIssue(fix, issue) ==
    /\ fix.entity = issue.entity
    /\ fix.current = issue.name
    /\ fix.rule_id = issue.rule_id

\* the fixes from the k-th on can be paired, in order, with distinct issues
\* from the i-th on
RECURSIVE PairedFrom(_, _, _, _)
PairedFrom(fs, is, k, i) ==
    IF k > Len(fs) THEN TRUE
    ELSE IF i > Len(is) THEN FALSE
    ELSE IF FixMatchesIssue(fs[k], is[i]) THEN PairedFrom(fs, is, k + 1, i + 1)
    ELSE PairedFrom(fs, is, k, i + 1)

FixesPaired(fs, is) ==
    /\ PairedFrom(fs, CheckIssues(is), 1, 1)
    /\ Len(fs) <= Len(is)
    /\ \A k \in 1..Len(fs) : fs[k].rule_id \notin ScannerIds

\* C29: in every validation result, and in the lists while they are built,
\* each fix is paired with an issue of its own for the same entity kind, name
\* and rule id, so there are at most as many fixes as issues; the issues the
\* scanner raises are paired with no fix; and a result with status ok has no
\* fixes.
C29_FixesPairedWithIssues ==
    /\ FixesPaired(fixes, issues)
    /\ FixesPaired(result.auto_fixes, result.issues)
    /\ Len(result.auto_fixes) <= result.issue_count
    /\ result.status = "ok" => result.auto_fixes = <<>>

\* a result with a scanner issue, an issue of a check that carries no fix, and
\* two fixes for measures of the same name
C29_Witness ==
    /\ vpc = "done"
    /\ \E i \in 1..Len(result.issues) : result.issues[i].rule_id \in ScannerIds
    /\ Len(result.auto_fixes) >= 2
    /\ Len(CheckIssues(result.issues)) > Len(result.auto_fixes)
    /\ \E j, k \in 1..Len(result.auto_fixes) :
          /\ j < k
          /\ result.auto_fixes[j].current = result.auto_fixes[k].current
          /\ result.auto_fixes[j].rule_id = result.auto_fixes[k].rule_id

\* C19: build_catalog is a deterministic function of its config argument
\* alone: any two calls with the same argument, the empty config included,
\* return equal catalogs apart from the version timestamp, with the same
\* rule ids in the same order, whatever the legacy file on disk holds.
C19_BuildDeterministic ==
    \A i, j \in 1..Len(built) :
        /\ built[i] = built[j]
        /\ RuleIdsOf(built[i]) = RuleIdsOf(built[j])

\* C20: no two rules of a catalog returned by build_catalog have the same id,
\* whatever the configuration: keys of the coding or performance section that
\* differ only in case or punctuation and anti-patterns alike in the first
\* forty characters of their slugs included.
C20_UniqueRuleIds ==
    \A k \in 1..Len(built) :
        \A i, j \in 1..Len(built[k].rules) :
            i # j => built[k].rules[i].id # built[k].rules[j].id

----------------------------------------------------------------------------
(* Specifications                                                          *)

StatefulIdle == NameIdle /\ ValIdle /\ CatalogLoaded({EmptyCatalog}) /\ RunIdle

PureIdle == DaxIdle /\ TmdlIdle /\ ClassIdle /\ BuildIdle /\ SyncIdle /\ SessIdle /\ RateIdle /\ ChunkIdle

\* naming transformer
InitNames == NameInit /\ ValIdle /\ CatalogLoaded({EmptyCatalog}) /\ RunIdle /\ PureIdle

SpecNames == InitNames /\ [][NameNext]_vars

\* standards validator
Init == NameIdle /\ ValInit /\ RunIdle /\ PureIdle

Next == ValNext

Spec == Init /\ [][Next]_vars

\* pipeline orchestrator
InitRun == NameIdle /\ ValIdle /\ CatalogLoaded(CatalogInputs) /\ RunInit /\ PureIdle

SpecRun == InitRun /\ [][RunNext]_vars

InitDax == StatefulIdle /\ DaxInit /\ TmdlIdle /\ ClassIdle /\ BuildIdle /\ SyncIdle /\ SessIdle /\ RateIdle /\ ChunkIdle

SpecDax == InitDax /\ [][DaxNext]_vars

InitTmdl == StatefulIdle /\ DaxIdle /\ TmdlInit /\ ClassIdle /\ BuildIdle /\ SyncIdle /\ SessIdle /\ RateIdle /\ ChunkIdle

InitClassify == StatefulIdle /\ DaxIdle /\ TmdlIdle /\ ClassInit /\ BuildIdle /\ SyncIdle /\ SessIdle /\ RateIdle /\ ChunkIdle

SpecClassify == InitClassify /\ [][ClassNext]_vars

InitBuild == StatefulIdle /\ DaxIdle /\ TmdlIdle /\ ClassIdle /\ BuildInit /\ SyncIdle /\ SessIdle /\ RateIdle /\ ChunkIdle

SpecBuild == InitBuild /\ [][BuildNext]_vars

InitSync == StatefulIdle /\ DaxIdle /\ TmdlIdle /\ ClassIdle /\ BuildIdle /\ SyncInit /\ SessIdle /\ RateIdle /\ ChunkIdle

SpecSync == InitSync /\ [][SyncNext]_vars

InitSession ==
    StatefulIdle /\ DaxIdle /\ TmdlIdle /\ ClassIdle /\ BuildIdle /\ SyncIdle /\ SessInit /\ RateIdle /\ ChunkIdle

SpecSession == InitSession /\ [][SessNext]_vars

InitRate ==
    StatefulIdle /\ DaxIdle /\ TmdlIdle /\ ClassIdle /\ BuildIdle /\ SyncIdle /\ SessIdle /\ RateInit /\ ChunkIdle

SpecRate == InitRate /\ [][RateNext]_vars

InitChunk ==
    StatefulIdle /\ DaxIdle /\ TmdlIdle /\ ClassIdle /\ BuildIdle /\ SyncIdle /\ SessIdle /\ RateIdle /\ ChunkInit

\* the call keeps running until it returns
SpecChunk == InitChunk /\ [][ChunkNext]_vars /\ WF_vars(ChunkNext)

SpecTmdl == InitTmdl /\ [][TmdlNext]_vars

=============================================================================
